---- MODULE Spec2Model ----
(***************************************************************************)
(* Location resolver of the SMS flood-risk assistant (src/geocoder.py):    *)
(* the JSON cache file, the two geocode providers, the difflib fallback    *)
(* matcher and get_coordinates, which chains them.                         *)
(*                                                                         *)
(* A Python str is a sequence of one-character strings.  A latitude or a   *)
(* longitude is the float times 10^4, as an integer (14.5995 is 145995);   *)
(* a value a provider sent instead of a number is NullValue for null and   *)
(* TextOf(v) for the string that spells the float v.                       *)
(***************************************************************************)
EXTENDS Integers, Sequences, FiniteSets, TLC

(***************************************************************************)
(* Bounds                                                                  *)
(***************************************************************************)
\* number of get_coordinates calls in one behaviour
MaxCalls == 2

(***************************************************************************)
(* Text: str.lower(), str.strip(), string comparison                       *)
(***************************************************************************)
\* the characters of the model in code-point order
Alphabet ==
  << "\t", "\n", " ", ",", ".",
     "0", "1", "2", "3", "4", "5", "6", "7", "8", "9",
     "A", "B", "C", "D", "E", "F", "G", "H", "I", "J", "K", "L", "M",
     "N", "O", "P", "Q", "R", "S", "T", "U", "V", "W", "X", "Y", "Z",
     "a", "b", "c", "d", "e", "f", "g", "h", "i", "j", "k", "l", "m",
     "n", "o", "p", "q", "r", "s", "t", "u", "v", "w", "x", "y", "z" >>

CharOrd(c) == CHOOSE i \in 1..Len(Alphabet) : Alphabet[i] = c

Whitespace == {"\t", "\n", " "}

IsUpper(c) == CharOrd(c) >= CharOrd("A") /\ CharOrd(c) <= CharOrd("Z")

LowerChar(c) == IF IsUpper(c) THEN Alphabet[CharOrd(c) + 26] ELSE c

\* str.lower()
Lower(s) == [i \in 1..Len(s) |-> LowerChar(s[i])]

\* str.strip(): drop the leading and the trailing whitespace
Strip(s) ==
  LET keep == {i \in 1..Len(s) : s[i] \notin Whitespace}
  IN  IF keep = {} THEN << >>
      ELSE LET lo == CHOOSE i \in keep : \A j \in keep : i <= j
               hi == CHOOSE i \in keep : \A j \in keep : i >= j
           IN  SubSeq(s, lo, hi)

\* location.lower().strip(), the key normalisation of geocoder.py
Normalize(location) == Strip(Lower(location))

\* Python's s < t on str: lexicographic by code point
RECURSIVE StrLess(_, _)
StrLess(s, t) ==
  IF t = << >> THEN FALSE
  ELSE IF s = << >> THEN TRUE
  ELSE IF s[1] # t[1] THEN CharOrd(s[1]) < CharOrd(t[1])
  ELSE StrLess(Tail(s), Tail(t))

(***************************************************************************)
(* The message parser (src/parser/intent_parser.py)                        *)
(***************************************************************************)
\* str.startswith(prefix)
StartsWith(s, prefix) ==
  Len(s) >= Len(prefix) /\ SubSeq(s, 1, Len(prefix)) = prefix

\* length of the run of non-whitespace characters s starts with
RECURSIVE WordLen(_)
WordLen(s) ==
  IF s = << >> \/ s[1] \in Whitespace THEN 0 ELSE 1 + WordLen(Tail(s))

\* str.split(): the words between runs of whitespace
RECURSIVE Split(_)
WordThenSplit(s, n) == << SubSeq(s, 1, n) >> \o Split(SubSeq(s, n + 1, Len(s)))

Split(s) ==
  IF s = << >> THEN << >>
  ELSE IF s[1] \in Whitespace THEN Split(Tail(s))
  ELSE WordThenSplit(s, WordLen(s))

\* " ".join(words)
RECURSIVE JoinSpace(_)
JoinSpace(words) ==
  IF words = << >> THEN << >>
  ELSE IF Len(words) = 1 THEN words[1]
  ELSE words[1] \o << " " >> \o JoinSpace(Tail(words))

\* the prefixes of line 59, in the order of the loop, and what replaces them
BarangayPrefixes ==
  << << "b", "a", "r", "a", "n", "g", "a", "y", " " >>,
     << "b", "g", "y", " " >>,
     << "b", "g", "y", ".", " " >> >>
Brgy == << "b", "r", "g", "y", " " >>

\* lines 60-61: one turn of the loop
ReplacePrefix(text, prefix) ==
  IF StartsWith(text, prefix)
  THEN Brgy \o SubSeq(text, Len(prefix) + 1, Len(text))
  ELSE text

\* normalize_location(raw)
normalize_location(raw_text) ==
  JoinSpace(Split(
    ReplacePrefix(
      ReplacePrefix(
        ReplacePrefix(Strip(Lower(raw_text)), BarangayPrefixes[1]),
        BarangayPrefixes[2]),
      BarangayPrefixes[3])))

\* KNOWN_COMMANDS: the texts that are commands, with their actions
KNOWN_COMMANDS ==
  (<< "1" >> :> "flood") @@ (<< "f", "l", "o", "o", "d" >> :> "flood") @@
  (<< "2" >> :> "prep") @@ (<< "p", "r", "e", "p" >> :> "prep") @@
  (<< "3" >> :> "travel") @@ (<< "t", "r", "a", "v", "e", "l" >> :> "travel") @@
  (<< "4" >> :> "farm") @@ (<< "f", "a", "r", "m" >> :> "farm") @@
  (<< "w", "h", "y" >> :> "why") @@ (<< "l", "o", "c" >> :> "loc") @@
  (<< "s", "t", "o", "p" >> :> "stop")

\* parse_intent, lines 94-104: a command, or the location to geocode
NoParse == [type |-> "none", text |-> << >>, action |-> "none", location |-> << >>]

ParseOf(raw_text, text) ==
  IF text \in DOMAIN KNOWN_COMMANDS
  THEN [type |-> "command", text |-> raw_text,
        action |-> KNOWN_COMMANDS[text], location |-> << >>]
  ELSE [type |-> "location", text |-> raw_text, action |-> "none",
        location |-> normalize_location(raw_text)]

parse_intent(raw_text) == ParseOf(raw_text, Lower(Strip(raw_text)))

(***************************************************************************)
(* difflib.SequenceMatcher(None, a, b) and difflib.get_close_matches       *)
(* Indices are Python's: 0-based, half-open windows [alo, ahi) x [blo, bhi)*)
(***************************************************************************)
\* autojunk, on by default: when b has 200 elements or more, the elements
\* that occur in it more than len(b) // 100 + 1 times are left out of b2j,
\* so that no block is found on them
Popular(b) ==
  IF Len(b) < 200 THEN {}
  ELSE { c \in { b[n] : n \in 1..Len(b) } :
           Cardinality({ n \in 1..Len(b) : b[n] = c }) > Len(b) \div 100 + 1 }

\* length of the common run of a and b starting at a[i], b[j] in the
\* window, over elements that are not in skip
RECURSIVE Run(_, _, _, _, _, _, _)
Run(a, b, skip, i, j, ahi, bhi) ==
  IF i < ahi /\ j < bhi /\ a[i + 1] = b[j + 1] /\ b[j + 1] \notin skip
  THEN 1 + Run(a, b, skip, i + 1, j + 1, ahi, bhi)
  ELSE 0

\* the common run starting at every pair of positions of the window
RunsIn(a, b, skip, alo, ahi, blo, bhi) ==
  [p \in (alo..(ahi - 1)) \X (blo..(bhi - 1)) |->
     Run(a, b, skip, p[1], p[2], ahi, bhi)]

\* the longest block, of those the one starting earliest in a, of those
\* the one starting earliest in b; (alo, blo, 0) when nothing matches
PickLongest(runs, alo, blo) ==
  IF \A p \in DOMAIN runs : runs[p] = 0
  THEN [i |-> alo, j |-> blo, k |-> 0]
  ELSE LET best == CHOOSE p \in DOMAIN runs :
                     \A q \in DOMAIN runs :
                       \/ runs[p] > runs[q]
                       \/ runs[p] = runs[q] /\ p[1] < q[1]
                       \/ runs[p] = runs[q] /\ p[1] = q[1] /\ p[2] <= q[2]
       IN  [i |-> best[1], j |-> best[2], k |-> runs[best]]

\* number of equal elements right before a[i], b[j] in the window
RECURSIVE Before(_, _, _, _, _, _)
Before(a, b, i, j, alo, blo) ==
  IF i > alo /\ j > blo /\ a[i] = b[j]
  THEN 1 + Before(a, b, i - 1, j - 1, alo, blo)
  ELSE 0

\* the block m extended by the equal elements on each side of it (no
\* element is junk, isjunk being None; the popular ones are matched here)
Extended(a, b, alo, ahi, blo, bhi, m, back) ==
  [i |-> m.i - back, j |-> m.j - back,
   k |-> back + m.k + Run(a, b, {}, m.i + m.k, m.j + m.k, ahi, bhi)]

\* SequenceMatcher.find_longest_match(alo, ahi, blo, bhi)
LongestKept(a, b, alo, ahi, blo, bhi, m) ==
  Extended(a, b, alo, ahi, blo, bhi, m, Before(a, b, m.i, m.j, alo, blo))

FindLongestMatch(a, b, alo, ahi, blo, bhi) ==
  LongestKept(a, b, alo, ahi, blo, bhi,
              PickLongest(RunsIn(a, b, Popular(b), alo, ahi, blo, bhi), alo, blo))

\* get_matching_blocks: the sum of the sizes of the longest block m of the
\* window and of the blocks found to its left and to its right
RECURSIVE MatchCount(_, _, _, _, _, _)
BlocksAround(a, b, alo, ahi, blo, bhi, m) ==
  IF m.k = 0 THEN 0
  ELSE m.k
       + (IF alo < m.i /\ blo < m.j
          THEN MatchCount(a, b, alo, m.i, blo, m.j) ELSE 0)
       + (IF m.i + m.k < ahi /\ m.j + m.k < bhi
          THEN MatchCount(a, b, m.i + m.k, ahi, m.j + m.k, bhi) ELSE 0)

MatchCount(a, b, alo, ahi, blo, bhi) ==
  BlocksAround(a, b, alo, ahi, blo, bhi, FindLongestMatch(a, b, alo, ahi, blo, bhi))

\* SequenceMatcher.ratio() = 2.0 * matches / length, and 1.0 when length
\* is 0, as the fraction num / den
CalculateRatio(matches, length) ==
  IF length = 0 THEN [num |-> 1, den |-> 1]
  ELSE [num |-> 2 * matches, den |-> length]

\* SequenceMatcher(None, a, b).ratio()
Ratio(a, b) ==
  CalculateRatio(MatchCount(a, b, 0, Len(a), 0, Len(b)), Len(a) + Len(b))

\* the cutoff 0.5 of get_close_matches, as the fraction CutoffNum/CutoffDen
CutoffNum == 1
CutoffDen == 2

\* faulty variant: the cutoff is exclusive
ClearsCutoffStrict(r) == r.num * CutoffDen > CutoffNum * r.den

\* ratio() >= cutoff
ClearsCutoff(r) == r.num * CutoffDen >= CutoffNum * r.den

\* (rx, x) < (ry, y) as Python compares the tuples (score, possibility)
ScoredLess(rx, x, ry, y) ==
  \/ rx.num * ry.den < ry.num * rx.den
  \/ rx.num * ry.den = ry.num * rx.den /\ StrLess(x, y)

\* heapq.nlargest(1, result): the largest (score, x) among the
\* possibilities whose score clears the cutoff
Largest(scores) ==
  IF \A x \in DOMAIN scores : ~ClearsCutoff(scores[x]) THEN << >>
  ELSE << CHOOSE x \in DOMAIN scores :
            /\ ClearsCutoff(scores[x])
            /\ \A y \in DOMAIN scores :
                 \/ y = x
                 \/ ~ClearsCutoff(scores[y])
                 \/ ScoredLess(scores[y], y, scores[x], x) >>

\* difflib.get_close_matches(word, possibilities, n=1, cutoff=0.5): seq2 is
\* the word, seq1 each possibility in turn.  (real_quick_ratio and
\* quick_ratio are upper bounds of ratio, with autojunk too, and filter
\* nothing ratio keeps.)
get_close_matches(word, possibilities) ==
  Largest([x \in possibilities |-> Ratio(x, word)])

(***************************************************************************)
(* Coordinates, the cache file and the cache helpers                       *)
(***************************************************************************)
\* DEFAULT_FALLBACK: Manila, 14.5995 / 120.9842
ManilaLat == 145995
ManilaLon == 1209842
DEFAULT_FALLBACK ==
  [lat |-> ManilaLat, lon |-> ManilaLon, name |-> <<"m", "a", "n", "i", "l", "a">>]

\* coordinates a provider can answer with, and the ones of the seeded cache
Cebu == [lat |-> 103157, lon |-> 1238854]
Davao == [lat |-> 70731, lon |-> 1256128]
Baguio == [lat |-> 164023, lon |-> 1205960]
ProviderCoords == {Cebu, Davao}

\* what a JSON body can hold in the place of a number: null, and the string
\* of a float (such as "10.3157")
NullValue == 100000000
TextBase == 200000000
TextOf(v) == TextBase + v

\* a parsed cache: a function from keys to [lat, lon]
EmptyDict == [k \in {} |-> Cebu]

\* locations_cache.json: absent, unparsable (empty, truncated, not JSON,
\* unreadable) or the JSON text of a dict
MissingFile == [kind |-> "missing", data |-> EmptyDict]
CorruptFile == [kind |-> "corrupt", data |-> EmptyDict]
JsonFile(d) == [kind |-> "json", data |-> d]

\* len(repr(x)) of the float x = v / 10^4, v >= 0: the integer part, the
\* point and the decimals without trailing zeros (at least one)
RECURSIVE Digits(_)
Digits(n) == IF n < 10 THEN 1 ELSE 1 + Digits(n \div 10)

FloatLen(v) ==
  LET f == v % 10000
  IN  Digits(v \div 10000) + 1 +
      (IF f % 10 # 0 THEN 4 ELSE IF f % 100 # 0 THEN 3
       ELSE IF f % 1000 # 0 THEN 2 ELSE 1)

\* length of what json.dump writes for a value: the repr of a float, null,
\* or the string between quotes
ValueLen(v) ==
  IF v = NullValue THEN 4
  ELSE IF v >= TextBase THEN FloatLen(v - TextBase) + 2
  ELSE FloatLen(v)

\* length of what json.dump writes between the quotes of a key: a tab and
\* a newline are written as the two characters \t and \n
KeyLen(k) == Len(k) + Cardinality({ n \in 1..Len(k) : k[n] \in {"\t", "\n"} })

\* length of the text json.dump(cache, f, indent=4) writes
RECURSIVE EntriesLen(_, _)
EntriesLen(d, keys) ==
  IF keys = {} THEN 0
  ELSE LET k == CHOOSE x \in keys : TRUE
       IN  KeyLen(k) + ValueLen(d[k].lat) + ValueLen(d[k].lon) + 48
           + EntriesLen(d, keys \ {k})

SerLen(d) ==
  IF DOMAIN d = {} THEN 2
  ELSE 4 + EntriesLen(d, DOMAIN d) + 2 * (Cardinality(DOMAIN d) - 1)

\* _load_cache(): {} when the file does not exist, json.load of it
\* otherwise, which raises on an unparsable file
_load_cache(f) ==
  IF f.kind = "missing" THEN [raised |-> FALSE, cache |-> EmptyDict]
  ELSE IF f.kind = "corrupt" THEN [raised |-> TRUE, cache |-> EmptyDict]
  ELSE [raised |-> FALSE, cache |-> f.data]

\* lookup_cache(location): cache[key] or None; raises when the load raises
lookup_cache(f, location) ==
  LET ld == _load_cache(f)
      key == Normalize(location)
  IN  IF ld.raised THEN [raised |-> TRUE, found |-> FALSE, val |-> Cebu]
      ELSE IF key \in DOMAIN ld.cache
           THEN [raised |-> FALSE, found |-> TRUE, val |-> ld.cache[key]]
           ELSE [raised |-> FALSE, found |-> FALSE, val |-> Cebu]

\* faulty variant: the entry is not stored
CachePutNothing(cache, location, lat, lon) == cache

\* faulty variant: latitude and longitude are stored swapped
CachePutSwapped(cache, location, lat, lon) ==
  LET key == Normalize(location)
  IN  [k \in DOMAIN cache \cup {key} |->
         IF k = key THEN [lat |-> lon, lon |-> lat] ELSE cache[k]]

\* cache[location.lower().strip()] = {"lat": lat, "lon": lon}
CachePut(cache, location, lat, lon) ==
  LET key == Normalize(location)
  IN  [k \in DOMAIN cache \cup {key} |->
         IF k = key THEN [lat |-> lat, lon |-> lon] ELSE cache[k]]

(***************************************************************************)
(* The geocode providers                                                   *)
(***************************************************************************)
\* what one HTTP exchange with a provider can come to
HitOutcomes == {[kind |-> "hit", lat |-> c.lat, lon |-> c.lon] : c \in ProviderCoords}
Outcome(kind) == [kind |-> kind, lat |-> 0, lon |-> 0]
\* connection error, timeout, non-2xx status: requests.RequestException
DownOutcomes == {Outcome("transport_error"), Outcome("timeout")}
\* body is not JSON (ValueError); a field is missing (KeyError, IndexError);
\* the body has the wrong shape, such as [null] (TypeError, AttributeError)
MissOutcomes ==
  DownOutcomes \cup
  {Outcome("empty"), Outcome("http_error"), Outcome("bad_json"), Outcome("missing_field")}
\* the first result holds null, or the strings of the floats, where the
\* coordinates are expected
OddOutcomes ==
  { Outcome("null_coords"), [kind |-> "text_coords", lat |-> Cebu.lat, lon |-> Cebu.lon] }
Outcomes == HitOutcomes \cup MissOutcomes \cup {Outcome("wrong_type")} \cup OddOutcomes

NoCoords == [raised |-> FALSE, hit |-> FALSE, lat |-> 0, lon |-> 0]

\* the try/except of both providers: RequestException, KeyError,
\* IndexError and ValueError are swallowed, anything else propagates
ProviderAnswer(o) ==
  IF o.kind = "hit" THEN [raised |-> FALSE, hit |-> TRUE, lat |-> o.lat, lon |-> o.lon]
  ELSE IF o.kind = "wrong_type" THEN [NoCoords EXCEPT !.raised = TRUE]
  ELSE NoCoords

\* nominatim_geocode(location); line 87 passes both values to float(),
\* which raises TypeError on None and reads the string of a float
nominatim_geocode(o) ==
  IF o.kind = "null_coords" THEN [NoCoords EXCEPT !.raised = TRUE]
  ELSE IF o.kind = "text_coords"
  THEN [raised |-> FALSE, hit |-> TRUE, lat |-> o.lat, lon |-> o.lon]
  ELSE ProviderAnswer(o)

\* opencage_geocode, lines 113-122; line 119 returns geo["lat"] and
\* geo["lng"] as they come, of whatever type
OpenCageAnswer(o) ==
  IF o.kind = "null_coords"
  THEN [raised |-> FALSE, hit |-> TRUE, lat |-> NullValue, lon |-> NullValue]
  ELSE IF o.kind = "text_coords"
  THEN [raised |-> FALSE, hit |-> TRUE, lat |-> TextOf(o.lat), lon |-> TextOf(o.lon)]
  ELSE ProviderAnswer(o)

\* faulty variant: the request goes out without a key
opencage_geocode_nokeycheck(api_key, o) == OpenCageAnswer(o)

\* opencage_geocode(location): None without a request when OPENCAGE_API_KEY
\* is unset or empty
opencage_geocode(api_key, o) ==
  IF ~api_key THEN NoCoords ELSE OpenCageAnswer(o)

\* whether opencage_geocode reaches requests.get
opencage_sends(api_key) == api_key

(***************************************************************************)
(* The fallback matcher                                                    *)
(***************************************************************************)
NoClosest == [raised |-> TRUE, lat |-> 0, lon |-> 0, name |-> << >>]

\* lines 153-159: the match with its stored coordinates, or the default
ClosestOf(d, matches) ==
  IF matches # << >>
  THEN [raised |-> FALSE, lat |-> d[matches[1]].lat,
        lon |-> d[matches[1]].lon, name |-> matches[1]]
  ELSE [raised |-> FALSE] @@ DEFAULT_FALLBACK

\* faulty variant: an empty cache is not answered with the default point
ClosestInUnchecked(ld, key) ==
  IF ld.raised THEN NoClosest
  ELSE IF DOMAIN ld.cache = {} THEN NoClosest
  ELSE ClosestOf(ld.cache, get_close_matches(key, DOMAIN ld.cache))

\* lines 145-152, on the loaded cache ld and key = location.lower().strip()
ClosestIn(ld, key) ==
  IF ld.raised THEN NoClosest
  ELSE IF DOMAIN ld.cache = {} THEN [raised |-> FALSE] @@ DEFAULT_FALLBACK
  ELSE ClosestOf(ld.cache, get_close_matches(key, DOMAIN ld.cache))

\* find_closest_match(location)
find_closest_match(f, location) == ClosestIn(_load_cache(f), Normalize(location))

(***************************************************************************)
(* The results of get_coordinates                                          *)
(***************************************************************************)
NoResult == [source |-> "none"]

\* faulty variant: latitude and longitude are returned swapped
CacheResultSwapped(cached) ==
  [lat |-> cached.lon, lon |-> cached.lat, source |-> "cache", approximate |-> FALSE]

\* lines 182-187
CacheResult(cached) ==
  [lat |-> cached.lat, lon |-> cached.lon, source |-> "cache", approximate |-> FALSE]

\* lines 193 and 202: {**coords, "source": ..., "approximate": False}
ProviderResult(c, source) ==
  [lat |-> c.lat, lon |-> c.lon, source |-> source, approximate |-> FALSE]

\* faulty variant: the fallback result is not flagged approximate
FallbackResultExact(closest) ==
  [lat |-> closest.lat, lon |-> closest.lon, source |-> "fallback",
   approximate |-> FALSE, matched_to |-> closest.name]

\* lines 206-212
FallbackResult(closest) ==
  [lat |-> closest.lat, lon |-> closest.lon, source |-> "fallback",
   approximate |-> TRUE, matched_to |-> closest.name]

(***************************************************************************)
(* The signal fetchers (src/data).  A rainfall is the float in mm times    *)
(* 1000, as an integer (40.001 mm is 40001).  The hourly values Open-Meteo *)
(* answers with are counted in eighths of a mm (2.5 mm is 20): on the      *)
(* multiples of 1/8 mm float addition does not round, so that the sum of   *)
(* the model is the sum Python gives; Mm brings a sum to the common unit.  *)
(***************************************************************************)
\* what one HTTP exchange with a data source can come to, besides a body
\* of the expected shape: requests.get raises, raise_for_status raises,
\* resp.json() raises, or the JSON is not an object
Up(kind) == [kind |-> kind]
FailedExchanges ==
  { Up("transport_error"), Up("timeout"), Up("http_error"), Up("bad_json"),
    Up("not_object") }

\* PAGASA_CLASSES (the en dashes of the labels, and the em dash of the
\* description in assess_risk, are written "-")
PAGASA_CLASSES ==
  << "Light (0-40mm)", "Moderate (40-80mm)", "Heavy (80-120mm)", "Intense (120mm+)" >>

\* _classify_pagasa(mm)
PagasaClassOf(cls) == [cls |-> cls, label |-> PAGASA_CLASSES[cls]]

_classify_pagasa(mm) ==
  IF mm <= 40000 THEN PagasaClassOf(1)
  ELSE IF mm <= 80000 THEN PagasaClassOf(2)
  ELSE IF mm <= 120000 THEN PagasaClassOf(3)
  ELSE PagasaClassOf(4)

\* PagasaForecast(...)
PagasaForecast(rainfall_mm, pagasa_class, pagasa_class_label, available) ==
  [rainfall_mm |-> rainfall_mm, pagasa_class |-> pagasa_class,
   pagasa_class_label |-> pagasa_class_label, available |-> available]

\* lines 106-118: the forecast for a pixel value
PagasaRead(pixel_val, c) == PagasaForecast(pixel_val, c.cls, c.label, TRUE)

\* the bodies PAGASA can answer with: no "results" or an empty list; a
\* first result that is not an object; a first result without the pixel
\* value; a pixel value float() rejects ("NoData", null); a pixel value
PagasaMm == {0, 12500, 40000, 40001, 80000, 80001, 120000, 120001, 150000}
PagasaUpstream ==
  FailedExchanges \cup
  { Up("no_results"), Up("bad_result"), Up("no_pixel"), Up("bad_pixel") } \cup
  { [kind |-> "pixel", mm |-> v] : v \in PagasaMm }

\* fetch_pagasa_rainfall(lat, lon) when the exchange comes to o
fetch_pagasa_rainfall(o) ==
  IF o.kind = "no_results" THEN PagasaForecast(0, 0, "No data", FALSE)
  ELSE IF o.kind = "no_pixel" THEN PagasaRead(0, _classify_pagasa(0))
  ELSE IF o.kind = "pixel" THEN PagasaRead(o.mm, _classify_pagasa(o.mm))
  ELSE PagasaForecast(0, 0, "Unavailable", FALSE)

\* a float or None
None == [none |-> TRUE, v |-> 0]
Some(x) == [none |-> FALSE, v |-> x]

\* sum(h) and max(h) of a list of numbers, in eighths of a mm
RECURSIVE SumOf(_)
SumOf(h) == IF h = << >> THEN 0 ELSE h[1] + SumOf(Tail(h))

MaxOf(h) == CHOOSE x \in {h[i] : i \in 1..Len(h)} : \A i \in 1..Len(h) : h[i] <= x

\* eighths of a mm as mm times 1000
Mm(e) == e * 125

\* hourly[:n] if len(hourly) >= n else hourly
FirstHours(hourly, n) == IF Len(hourly) >= n THEN SubSeq(hourly, 1, n) ELSE hourly

\* RainfallForecast(...)
RainfallForecast(rain_6h_mm, rain_3h_mm, peak_hourly_mm, hourly_values, forecast_available) ==
  [rain_6h_mm |-> rain_6h_mm, rain_3h_mm |-> rain_3h_mm,
   peak_hourly_mm |-> peak_hourly_mm, hourly_values |-> hourly_values,
   forecast_available |-> forecast_available]

NoRainfall == RainfallForecast(0, 0, 0, << >>, FALSE)

\* lines 50-59 on the lists h6 and h3
RainfallRead(hourly, h6, h3) ==
  RainfallForecast(Mm(SumOf(h6)), Mm(SumOf(h3)),
                   IF h6 # << >> THEN Mm(MaxOf(h6)) ELSE 0, hourly, TRUE)

\* the bodies Open-Meteo can answer with: no hourly.precipitation; a list
\* of numbers (in eighths of a mm) of which the entries at the places
\* nulls are JSON null
HourlyLists ==
  { << >>,
    << 59 >>,
    << 20, 20, 20 >>,
    << 40, 40, 39 >>,
    << 20, 20, 20, 20, 20, 20, 800 >>,
    << 80, 80, 79, 0, 0, 0 >>,
    << 0, 0, 0, 0, 0, 240, 0, 0, 0, 0, 0, 0 >> }
OpenMeteoUpstream ==
  FailedExchanges \cup { Up("no_hourly") } \cup
  { [kind |-> "hourly", hourly |-> h, nulls |-> {}] : h \in HourlyLists } \cup
  { [kind |-> "hourly", hourly |-> << 20, 0 >>, nulls |-> {2}],
    [kind |-> "hourly", hourly |-> << 20, 20, 20, 0, 0, 0, 0 >>, nulls |-> {7}] }

\* the list data["hourly"]["precipitation"] as parsed: None at the places
\* of the nulls
HourlyOf(o) ==
  [n \in 1..Len(o.hourly) |-> IF n \in o.nulls THEN None ELSE Some(Mm(o.hourly[n]))]

\* fetch_rainfall(lat, lon) when the exchange comes to o: sum() and max()
\* raise TypeError on a null among the hours they read; hourly_values is
\* the whole list as parsed, a null after the sixth hour included
fetch_rainfall(o) ==
  IF o.kind = "hourly" /\ o.nulls \cap (1..Len(FirstHours(o.hourly, 6))) = {}
  THEN RainfallRead(HourlyOf(o), FirstHours(o.hourly, 6), FirstHours(o.hourly, 3))
  ELSE NoRainfall

\* FLOOD_SUSC_MAP, LEVEL_LABELS, DEFAULT_SUSCEPTIBILITY
FLOOD_SUSC_MAP ==
  [ VHF |-> [level |-> 4, label |-> "Very High"],
    HF |-> [level |-> 3, label |-> "High"],
    MF |-> [level |-> 2, label |-> "Moderate"],
    LF |-> [level |-> 1, label |-> "Low"] ]
LEVEL_LABELS == << "Low", "Moderate", "High", "Very High" >>
DEFAULT_SUSCEPTIBILITY == 2

\* SusceptibilityResult(...)
SusceptibilityResult(level, label, source) ==
  [level |-> level, label |-> label, source |-> source]

DefaultSusceptibility ==
  SusceptibilityResult(DEFAULT_SUSCEPTIBILITY, LEVEL_LABELS[DEFAULT_SUSCEPTIBILITY],
                       "default")

\* line 85: FLOOD_SUSC_MAP.get(code, (DEFAULT_SUSCEPTIBILITY, "Unknown"))
SusceptibilityOf(code) ==
  IF code \in DOMAIN FLOOD_SUSC_MAP THEN FLOOD_SUSC_MAP[code]
  ELSE [level |-> DEFAULT_SUSCEPTIBILITY, label |-> "Unknown"]

\* the bodies MGB can answer with: no "features" or an empty list; a first
\* feature without attributes.FloodSusc; a zone code
ZoneCodes == {"VHF", "HF", "MF", "LF", "XX"}
MgbUpstream ==
  FailedExchanges \cup { Up("no_features"), Up("no_code") } \cup
  { [kind |-> "code", code |-> c] : c \in ZoneCodes }

\* get_susceptibility(lat, lon) when the exchange comes to o
get_susceptibility(o) ==
  IF o.kind = "code"
  THEN SusceptibilityResult(SusceptibilityOf(o.code).level,
                            SusceptibilityOf(o.code).label, "mgb")
  ELSE DefaultSusceptibility

(***************************************************************************)
(* The risk engine (src/risk/engine.py)                                    *)
(***************************************************************************)
Classified(trigger, label) == [trigger |-> trigger, label |-> label]

\* faulty variant: the upper bounds are exclusive
classify_rain_pagasa_strict(mm) ==
  IF mm < 40000 THEN Classified(0, "Light")
  ELSE IF mm < 80000 THEN Classified(1, "Moderate")
  ELSE IF mm < 120000 THEN Classified(2, "Heavy")
  ELSE Classified(3, "Intense")

\* classify_rain_pagasa(mm)
classify_rain_pagasa(mm) ==
  IF mm <= 40000 THEN Classified(0, "Light")
  ELSE IF mm <= 80000 THEN Classified(1, "Moderate")
  ELSE IF mm <= 120000 THEN Classified(2, "Heavy")
  ELSE Classified(3, "Intense")

\* faulty variant: the upper bounds are inclusive
classify_rain_openmeteo_inclusive(mm_6h) ==
  IF mm_6h <= 7500 THEN Classified(0, "Light")
  ELSE IF mm_6h <= 15000 THEN Classified(1, "Moderate")
  ELSE IF mm_6h <= 30000 THEN Classified(2, "Heavy")
  ELSE Classified(3, "Intense")

\* classify_rain_openmeteo(mm_6h)
classify_rain_openmeteo(mm_6h) ==
  IF mm_6h < 7500 THEN Classified(0, "Light")
  ELSE IF mm_6h < 15000 THEN Classified(1, "Moderate")
  ELSE IF mm_6h < 30000 THEN Classified(2, "Heavy")
  ELSE Classified(3, "Intense")

\* TIER_THRESHOLDS
TIER_THRESHOLDS ==
  << [max_score |-> 0, tier |-> "SAFE", desc |-> "No immediate flood risk."],
     [max_score |-> 3, tier |-> "WATCH", desc |-> "Low flood risk. Stay alert for updates."],
     [max_score |-> 6, tier |-> "WARNING", desc |-> "Moderate flood risk. Prepare to act."],
     [max_score |-> 99, tier |-> "CRITICAL", desc |-> "High flood risk. Act immediately."] >>

\* the loop of _score_to_tier from row i on
RECURSIVE TierFrom(_, _)
TierFrom(score, i) ==
  IF i > Len(TIER_THRESHOLDS)
  THEN [tier |-> "CRITICAL", desc |-> "High flood risk. Act immediately."]
  ELSE IF score <= TIER_THRESHOLDS[i].max_score
  THEN [tier |-> TIER_THRESHOLDS[i].tier, desc |-> TIER_THRESHOLDS[i].desc]
  ELSE TierFrom(score, i + 1)

\* faulty variant: the upper bounds of the rows are exclusive
RECURSIVE TierFromStrict(_, _)
TierFromStrict(score, i) ==
  IF i > Len(TIER_THRESHOLDS)
  THEN [tier |-> "CRITICAL", desc |-> "High flood risk. Act immediately."]
  ELSE IF score < TIER_THRESHOLDS[i].max_score
  THEN [tier |-> TIER_THRESHOLDS[i].tier, desc |-> TIER_THRESHOLDS[i].desc]
  ELSE TierFromStrict(score, i + 1)

_score_to_tier_strict(score) == TierFromStrict(score, 1)

\* _score_to_tier(score)
_score_to_tier(score) == TierFrom(score, 1)

\* one part of rain_detail: the text before the number and the number
Detail(what, mm) == [what |-> what, mm |-> mm]

\* the rainfall chosen: trigger, label, source, mm, detail, availability
Rain(c, rain_source, rain_mm, rain_detail, forecast_available) ==
  [rain_trigger |-> c.trigger, rain_label |-> c.label, rain_source |-> rain_source,
   rain_mm |-> rain_mm, rain_detail |-> rain_detail,
   forecast_available |-> forecast_available]

\* faulty variant: the secondary source is preferred
RainChoiceSecondaryFirst(pagasa_mm, pagasa_available, openmeteo_6h_mm, openmeteo_3h_mm, openmeteo_available) ==
  IF openmeteo_available /\ ~openmeteo_6h_mm.none
  THEN Rain(classify_rain_openmeteo(openmeteo_6h_mm.v), "open-meteo", openmeteo_6h_mm.v,
            << Detail("Open-Meteo 6hr", openmeteo_6h_mm.v) >>, TRUE)
  ELSE IF pagasa_available /\ ~pagasa_mm.none
  THEN Rain(classify_rain_pagasa(pagasa_mm.v), "pagasa", pagasa_mm.v,
            << Detail("PAGASA forecast", pagasa_mm.v) >>, TRUE)
  ELSE Rain(Classified(0, "Unknown"), "none", 0,
            << Detail("No forecast data available", 0) >>, FALSE)

\* assess_risk, lines 123-147
RainChoice(pagasa_mm, pagasa_available, openmeteo_6h_mm, openmeteo_3h_mm, openmeteo_available) ==
  IF pagasa_available /\ ~pagasa_mm.none
  THEN Rain(classify_rain_pagasa(pagasa_mm.v), "pagasa", pagasa_mm.v,
            << Detail("PAGASA forecast", pagasa_mm.v) >> \o
              (IF openmeteo_available /\ ~openmeteo_6h_mm.none
               THEN << Detail("Open-Meteo 6hr", openmeteo_6h_mm.v) >> ELSE << >>),
            TRUE)
  ELSE IF openmeteo_available /\ ~openmeteo_6h_mm.none
  THEN Rain(classify_rain_openmeteo(openmeteo_6h_mm.v), "open-meteo", openmeteo_6h_mm.v,
            << Detail("Open-Meteo 6hr", openmeteo_6h_mm.v) >> \o
              (IF ~openmeteo_3h_mm.none
               THEN << Detail("3hr", openmeteo_3h_mm.v) >> ELSE << >>),
            TRUE)
  ELSE Rain(Classified(0, "Unknown"), "none", 0,
            << Detail("No forecast data available", 0) >>, FALSE)

\* faulty variant: the adjustment starts above level 3
VerdictAboveThree(t, susceptibility, forecast_available) ==
  IF forecast_available THEN [tier |-> t.tier, description |-> << t.desc >>]
  ELSE IF susceptibility > 3
  THEN [tier |-> "WATCH",
        description |-> << "Flood-prone area. No forecast data - stay alert." >>]
  ELSE [tier |-> t.tier, description |-> << t.desc, " (no forecast data)" >>]

\* faulty variant: the adjustment is made at level 3 only
VerdictExactlyThree(t, susceptibility, forecast_available) ==
  IF forecast_available THEN [tier |-> t.tier, description |-> << t.desc >>]
  ELSE IF susceptibility = 3
  THEN [tier |-> "WATCH",
        description |-> << "Flood-prone area. No forecast data - stay alert." >>]
  ELSE [tier |-> t.tier, description |-> << t.desc, " (no forecast data)" >>]

\* assess_risk, lines 154-158: tier and description of a score t, with the
\* adjustment when there is no forecast
Verdict(t, susceptibility, forecast_available) ==
  IF forecast_available THEN [tier |-> t.tier, description |-> << t.desc >>]
  ELSE IF susceptibility >= 3
  THEN [tier |-> "WATCH",
        description |-> << "Flood-prone area. No forecast data - stay alert." >>]
  ELSE [tier |-> t.tier, description |-> << t.desc, " (no forecast data)" >>]

\* assess_risk, lines 150-173
RiskAssessment(susceptibility, suscept_label, suscept_source, rain, score, v) ==
  [tier |-> v.tier, score |-> score, susceptibility |-> susceptibility,
   suscept_label |-> suscept_label, suscept_source |-> suscept_source,
   rain_trigger |-> rain.rain_trigger, rain_label |-> rain.rain_label,
   rain_source |-> rain.rain_source, rain_mm |-> rain.rain_mm,
   rain_detail |-> rain.rain_detail,
   forecast_available |-> rain.forecast_available,
   description |-> v.description]

Scored(susceptibility, suscept_label, suscept_source, rain, score) ==
  RiskAssessment(susceptibility, suscept_label, suscept_source, rain, score,
                 Verdict(_score_to_tier(score), susceptibility, rain.forecast_available))

\* faulty variant: the score is the sum
assess_risk_sum(susceptibility, suscept_label, suscept_source, pagasa_mm, pagasa_available, openmeteo_6h_mm, openmeteo_3h_mm, openmeteo_peak_mm, openmeteo_available) ==
  LET rain == RainChoice(pagasa_mm, pagasa_available, openmeteo_6h_mm,
                         openmeteo_3h_mm, openmeteo_available)
  IN  Scored(susceptibility, suscept_label, suscept_source, rain,
             susceptibility + rain.rain_trigger)

\* assess_risk(...)
assess_risk(susceptibility, suscept_label, suscept_source, pagasa_mm, pagasa_available, openmeteo_6h_mm, openmeteo_3h_mm, openmeteo_peak_mm, openmeteo_available) ==
  LET rain == RainChoice(pagasa_mm, pagasa_available, openmeteo_6h_mm,
                         openmeteo_3h_mm, openmeteo_available)
  IN  Scored(susceptibility, suscept_label, suscept_source, rain,
             susceptibility * rain.rain_trigger)

(***************************************************************************)
(* The reply texts (src/risk/response.py).  A text is the record of what   *)
(* its template is filled with; a number printed with :.0f is the integer  *)
(* it prints as.  The twiml element of a reply wraps the same text.        *)
(***************************************************************************)
UpperChar(c) ==
  IF CharOrd(c) >= CharOrd("a") /\ CharOrd(c) <= CharOrd("z")
  THEN Alphabet[CharOrd(c) - 26] ELSE c

\* str.upper()
Upper(s) == [i \in 1..Len(s) |-> UpperChar(s[i])]

\* f"{mm:.0f}": the nearest integer, the even one of two equally near
Fmt0(mm) ==
  IF mm % 1000 > 500 \/ (mm % 1000 = 500 /\ (mm \div 1000) % 2 = 1)
  THEN mm \div 1000 + 1 ELSE mm \div 1000

\* TIER_EMOJI, each emoji by its name
TIER_EMOJI ==
  [CRITICAL |-> "red circle", WARNING |-> "yellow circle",
   WATCH |-> "orange circle", SAFE |-> "check mark"]

\* SOURCE_LABELS
SOURCE_LABELS == ("pagasa" :> "PAGASA") @@ ("open-meteo" :> "Open-Meteo") @@ ("none" :> "N/A")

\* DANGER_ACTIONS
DANGER_ACTIONS ==
  [CRITICAL |-> << "EVACUATE to higher ground NOW.", "Bring IDs, meds, water, phone.",
                   "Turn off main power before leaving.", "Do NOT cross floodwater." >>,
   WARNING |-> << "Charge phone and powerbank.", "Move valuables to higher floor.",
                  "Pack go-bag: IDs, meds, water, clothes.",
                  "Monitor for rising water levels." >>]

\* a text with nothing filled in
Text(kind) ==
  [kind |-> kind, emoji |-> "", tier |-> "", loc |-> << >>,
   rain |-> [shown |-> FALSE, label |-> "", mm |-> 0, source |-> ""],
   detail |-> << >>, suscept |-> "", level |-> 0, trigger |-> 0, score |-> 0,
   lines |-> << >>, footer |-> ""]

\* the heading common to the texts made from an assessment
Headed(kind, assessment, location_name) ==
  [Text(kind) EXCEPT !.emoji = TIER_EMOJI[assessment.tier],
                     !.tier = assessment.tier,
                     !.loc = Upper(location_name)]

\* format_sms, lines 82-86: the rain line
RainLine(assessment) ==
  IF assessment.forecast_available
  THEN [shown |-> TRUE, label |-> assessment.rain_label, mm |-> Fmt0(assessment.rain_mm),
        source |-> SOURCE_LABELS[assessment.rain_source]]
  ELSE [shown |-> FALSE, label |-> "Unavailable", mm |-> 0, source |-> ""]

\* format_sms(assessment, location_name)
format_sms(assessment, location_name) ==
  [Headed("sms", assessment, location_name) EXCEPT
     !.rain = RainLine(assessment),
     !.suscept = assessment.suscept_label,
     !.lines = IF assessment.tier \in {"CRITICAL", "WARNING"}
               THEN << "DO NOW:" >> \o DANGER_ACTIONS[assessment.tier]
               ELSE IF assessment.tier = "WATCH"
               THEN << "Stay alert. No immediate action needed." >>
               ELSE << >>,
     !.footer = IF assessment.tier \in {"CRITICAL", "WARNING"}
                THEN "MENU_FOOTER_SHORT" ELSE "MENU_FOOTER"]

\* format_why(assessment, location_name)
format_why(assessment, location_name) ==
  [Headed("why", assessment, location_name) EXCEPT
     !.rain = [shown |-> TRUE, label |-> assessment.rain_label,
               mm |-> Fmt0(assessment.rain_mm),
               source |-> SOURCE_LABELS[assessment.rain_source]],
     !.detail = assessment.rain_detail,
     !.suscept = assessment.suscept_label,
     !.level = assessment.susceptibility,
     !.trigger = assessment.rain_trigger,
     !.score = assessment.score,
     !.footer = "MENU_FOOTER_SHORT"]

\* format_home_prep, lines 150-177: the checklist of a tier
HomePrepItems ==
  [CRITICAL |-> << "If still home - LEAVE NOW.", "Turn off electricity and gas.",
                   "Seal important documents in plastic.",
                   "Move to evacuation center or higher ground." >>,
   WARNING |-> << "Move valuables and electronics upstairs.",
                  "Fill containers with clean drinking water.",
                  "Charge all phones and powerbanks.",
                  "Pack go-bag: IDs, meds, water, change of clothes.",
                  "Know your evacuation route." >>,
   WATCH |-> << "Check flashlights and batteries.", "Stock 3 days of food and water.",
                "Secure loose items outside (plants, furniture).",
                "Keep phone charged." >>,
   SAFE |-> << "No urgent prep needed.", "Good time to restock emergency supplies.",
               "Check that your go-bag is ready (IDs, meds, water)." >>]

\* format_travel, lines 195-219
TravelAdvice ==
  [CRITICAL |-> << "DO NOT TRAVEL. Roads may be impassable.",
                   "Do not cross flooded roads on foot or by vehicle.",
                   "If caught in rising water, move to highest accessible point.",
                   "Wait for official all-clear before traveling." >>,
   WARNING |-> << "Avoid low-lying roads and underpasses.", "Delay non-essential travel.",
                  "If driving, do not enter flooded roads - turn around.",
                  "Keep phone charged for updates." >>,
   WATCH |-> << "Travel with caution near rivers and waterways.",
                "Avoid low-lying routes if heavy rain starts.",
                "Keep updated on weather advisories." >>,
   SAFE |-> << "Travel conditions are normal.", "Stay aware of weather changes." >>]

\* format_farmer, lines 237-262
FarmerAdvice ==
  [CRITICAL |-> << "Prioritize personal safety over crops/livestock.",
                   "Move livestock to higher ground immediately.",
                   "Secure or harvest what you can NOW.", "Do not work in open fields." >>,
   WARNING |-> << "Delay planting if heavy rain expected.",
                  "Move equipment and supplies to higher ground.",
                  "Secure livestock shelters.",
                  "Harvest ripe crops before heavy rain hits." >>,
   WATCH |-> << "Monitor forecasts before field work.",
                "Delay fertilizer application if rain is expected.",
                "Check drainage ditches are clear." >>,
   SAFE |-> << "Good conditions for field work.",
               "Good time to maintain drainage systems.",
               "Check weather before scheduling irrigation." >>]

\* the list of a tier; the last branch of the source takes every other tier
ItemsOf(table, tier) == IF tier \in {"CRITICAL", "WARNING", "WATCH"} THEN table[tier] ELSE table.SAFE

\* format_home_prep(assessment, location_name)
format_home_prep(assessment, location_name) ==
  [Headed("prep", assessment, location_name) EXCEPT
     !.lines = ItemsOf(HomePrepItems, assessment.tier), !.footer = "MENU_FOOTER_SHORT"]

\* format_travel(assessment, location_name)
format_travel(assessment, location_name) ==
  [Headed("travel", assessment, location_name) EXCEPT
     !.lines = ItemsOf(TravelAdvice, assessment.tier), !.footer = "MENU_FOOTER_SHORT"]

\* format_farmer(assessment, location_name)
format_farmer(assessment, location_name) ==
  [Headed("farm", assessment, location_name) EXCEPT
     !.rain = [shown |-> TRUE, label |-> assessment.rain_label,
               mm |-> Fmt0(assessment.rain_mm), source |-> ""],
     !.lines = ItemsOf(FarmerAdvice, assessment.tier), !.footer = "MENU_FOOTER_SHORT"]

\* format_no_session()
format_no_session ==
  [Text("no_session") EXCEPT
     !.lines = << "No location on file.", "Text a city name to get started.",
                  "Example: Marikina" >>]

\* format_stop()
format_stop ==
  [Text("stop") EXCEPT
     !.lines = << "You've been unsubscribed. Text any city name to start again." >>]

(***************************************************************************)
(* The menu (src/pipeline.py)                                              *)
(***************************************************************************)
\* MENU_COMMANDS
MENU_COMMANDS ==
  { << "1" >>, << "2" >>, << "3" >>, << "4" >>, << "5" >>,
    << "f", "l", "o", "o", "d" >>, << "p", "r", "e", "p" >>,
    << "t", "r", "a", "v", "e", "l" >>, << "f", "a", "r", "m" >>,
    << "w", "h", "y" >>, << "l", "o", "c" >>, << "s", "t", "o", "p" >> }

\* an argument or a session entry that is None, and one that has a value
Nothing == << >>
Just(x) == << x >>

\* faulty variant: the text is compared as typed
is_menu_command_as_typed(text) == text \in MENU_COMMANDS

\* is_menu_command(text)
is_menu_command(text) == Lower(Strip(text)) \in MENU_COMMANDS

\* handle_menu, lines 155-175: the text for cmd from a stored assessment
MenuText(cmd, assessment, location_name) ==
  IF cmd \in { << "1" >>, << "f", "l", "o", "o", "d" >> }
  THEN format_sms(assessment, location_name)
  ELSE IF cmd \in { << "2" >>, << "p", "r", "e", "p" >> }
  THEN format_home_prep(assessment, location_name)
  ELSE IF cmd \in { << "3" >>, << "t", "r", "a", "v", "e", "l" >> }
  THEN format_travel(assessment, location_name)
  ELSE IF cmd \in { << "4" >>, << "f", "a", "r", "m" >> }
  THEN format_farmer(assessment, location_name)
  ELSE IF cmd \in { << "5" >>, << "l", "o", "c" >> }
  THEN [Text("loc") EXCEPT
          !.lines = << "Send a new city or barangay name to update your location." >>]
  ELSE IF cmd = << "w", "h", "y" >>
  THEN format_why(assessment, location_name)
  ELSE format_no_session

\* faulty variant: the session is looked at before STOP
MenuSessionFirst(cmd, assessment, location_name) ==
  IF assessment = Nothing \/ location_name = Nothing THEN format_no_session
  ELSE IF cmd = << "s", "t", "o", "p" >> THEN format_stop
  ELSE MenuText(cmd, assessment[1], location_name[1])

\* handle_menu, lines 146-178, on cmd
Menu(cmd, assessment, location_name) ==
  IF cmd = << "s", "t", "o", "p" >> THEN format_stop
  ELSE IF assessment = Nothing \/ location_name = Nothing THEN format_no_session
  ELSE MenuText(cmd, assessment[1], location_name[1])

\* handle_menu(command, assessment, location_name): the sms_text returned
handle_menu(command, assessment, location_name) ==
  Menu(Lower(Strip(command)), assessment, location_name)

(***************************************************************************)
(* The state                                                               *)
(***************************************************************************)
\* the request threads; the command-line client has one, the Flask server
\* of app.py serves requests on concurrent threads
Procs == {1, 2}
SeqProcs == {1}

\* the location texts passed to get_coordinates
RawInputs ==
  { <<"A", "b">>, <<" ", "a", "b", "\n">>, <<"a", "d">>, <<"q">>,
    <<"x", " ", "y">>, <<"x", " ", " ", "y">> }

\* the message texts the webhook receives
SmsBodies ==
  { << "b", "r", "g", "y", " ", "x" >>,
    << " ", "B", "g", "y", ".", " ", " ", "x" >>,
    << "B", "A", "R", "A", "N", "G", "A", "Y", " ", "x", "\n" >>,
    << "b", "g", "y", "\n", " ", "x" >>,
    << "W", "h", "y", " " >>,
    << "5" >>,
    << " " >> }

\* the cache files a behaviour starts from
InitFiles ==
  { MissingFile, CorruptFile, JsonFile(EmptyDict),
    JsonFile(<<"a", "b">> :> Baguio),
    JsonFile((<<"a", "b">> :> Baguio) @@ (<<"a", "c">> :> Cebu)) }

VARIABLES
  file,     \* locations_cache.json
  api_key,  \* whether OPENCAGE_API_KEY is set and not empty
  netUp,    \* whether the providers can be reached
  calls,    \* get_coordinates calls started so far
  pc,       \* per thread: where it is in get_coordinates
  raw,      \* per thread: the argument location
  clean,    \* per thread: the local clean
  coords,   \* per thread: the local coords with the provider it came from
  cache,    \* per thread: the local cache of save_to_cache
  trace,    \* per thread: the tiers tried by the call, in order
  result,   \* per thread: the value returned
  exc,      \* per thread: the exception the call ended with
  atCall,   \* per thread: the cache file when the call started
  prev,     \* per thread: argument and result of the call before this one
  parsed,   \* per thread: what parse_intent made of the message
  apc,        \* where assess is
  point,      \* the arguments lat, lon, location_name of assess
  pagasa,     \* the local pagasa of assess
  openmeteo,  \* the local openmeteo of assess
  suscept,    \* the local suscept of assess
  assessment, \* the local assessment of assess, which it returns
  upstream,   \* what the exchange of each fetcher of this assess came to
  fetched,    \* how many times this assess has called each fetcher
  session,    \* the local session of the command-line loop
  line,       \* the text the loop read last
  branch,     \* the branch of the loop that handled it
  printed,    \* the sms_text made last
  cpc,        \* whether the loop is reading ("input") or has ended
  menucall    \* the arguments of the last handle_menu call made directly

gvars == << file, api_key, netUp, calls, pc, raw, clean, coords, cache, trace,
            result, exc, atCall, prev >>
avars == << apc, point, pagasa, openmeteo, suscept, assessment, upstream, fetched >>
cvars == << session, line, branch, printed, cpc, menucall >>
vars == << gvars, parsed, avars, cvars >>

NoLocal == [lat |-> 0, lon |-> 0, source |-> "none"]
NoPrev ==
  [valid |-> FALSE, raw |-> << >>, lat |-> 0, lon |-> 0, source |-> "none",
   text |-> << >>]

\* a local of assess that is not assigned yet
Unset == [unset |-> TRUE]
NoPoint == [lat |-> 0, lon |-> 0, name |-> << >>]
NoExchanges == [pagasa |-> Up("none"), openmeteo |-> Up("none"), mgb |-> Up("none")]
NoFetches == [pagasa |-> 0, openmeteo |-> 0, mgb |-> 0]

\* session = {}: every session.get(...) is None
EmptySession == [assessment |-> Nothing, name |-> Nothing, lat |-> Nothing, lon |-> Nothing]
NoMenuCall == [command |-> << >>, assessment |-> Nothing, location_name |-> Nothing]

\* the arguments of assess
AssessPoints ==
  { DEFAULT_FALLBACK, [lat |-> Cebu.lat, lon |-> Cebu.lon, name |-> << "q" >>] }

Init ==
  /\ file \in InitFiles
  /\ api_key \in BOOLEAN
  /\ netUp = TRUE
  /\ calls = 0
  /\ pc = [p \in Procs |-> "idle"]
  /\ raw = [p \in Procs |-> << >>]
  /\ clean = [p \in Procs |-> << >>]
  /\ coords = [p \in Procs |-> NoLocal]
  /\ cache = [p \in Procs |-> EmptyDict]
  /\ trace = [p \in Procs |-> << >>]
  /\ result = [p \in Procs |-> NoResult]
  /\ exc = [p \in Procs |-> "none"]
  /\ atCall = [p \in Procs |-> MissingFile]
  /\ prev = [p \in Procs |-> NoPrev]
  /\ parsed = [p \in Procs |-> NoParse]
  /\ apc = "idle"
  /\ point = NoPoint
  /\ pagasa = Unset
  /\ openmeteo = Unset
  /\ suscept = Unset
  /\ assessment = Unset
  /\ upstream = NoExchanges
  /\ fetched = NoFetches
  /\ session = EmptySession
  /\ line = << >>
  /\ branch = "none"
  /\ printed = Text("none")
  /\ cpc = "input"
  /\ menucall = NoMenuCall

\* one tier tried by a call: how it ended ("hit", "miss" or "raised") and
\* whether an HTTP request went out
Tried(tier, res, sent) == [tier |-> tier, res |-> res, sent |-> sent]
Res(r) == IF r.raised THEN "raised" ELSE IF r.hit THEN "hit" ELSE "miss"

\* the call of thread p ends with an exception
Raise(p, e) ==
  /\ pc' = [pc EXCEPT ![p] = "raised"]
  /\ exc' = [exc EXCEPT ![p] = e]
  /\ result' = [result EXCEPT ![p] = NoResult]
  /\ coords' = [coords EXCEPT ![p] = NoLocal]
  /\ cache' = [cache EXCEPT ![p] = EmptyDict]

\* the call of thread p returns r
Return(p, r) ==
  /\ pc' = [pc EXCEPT ![p] = "done"]
  /\ result' = [result EXCEPT ![p] = r]
  /\ coords' = [coords EXCEPT ![p] = NoLocal]
  /\ cache' = [cache EXCEPT ![p] = EmptyDict]
  /\ UNCHANGED exc

(***************************************************************************)
(* get_coordinates, one action per access to the file or to a provider     *)
(***************************************************************************)
\* a thread calls get_coordinates(location); line 177
Enter(p, location) ==
  /\ pc[p] \in {"idle", "done", "raised"}
  /\ calls < MaxCalls
  /\ calls' = calls + 1
  /\ raw' = [raw EXCEPT ![p] = location]
  /\ clean' = [clean EXCEPT ![p] = Normalize(location)]
  /\ pc' = [pc EXCEPT ![p] = "lookup"]
  /\ trace' = [trace EXCEPT ![p] = << >>]
  /\ result' = [result EXCEPT ![p] = NoResult]
  /\ exc' = [exc EXCEPT ![p] = "none"]
  /\ atCall' = [atCall EXCEPT ![p] = file]
  /\ prev' = [prev EXCEPT ![p] =
       IF pc[p] = "done"
       THEN [valid |-> TRUE, raw |-> raw[p], lat |-> result[p].lat,
             lon |-> result[p].lon, source |-> result[p].source,
             text |-> parsed[p].text]
       ELSE NoPrev]
  /\ UNCHANGED << file, api_key, netUp, coords, cache >>
  /\ UNCHANGED << avars, cvars >>

\* get_coordinates(location) called as such
Call(p, location) ==
  /\ Enter(p, location)
  /\ parsed' = [parsed EXCEPT ![p] = NoParse]

\* the request thread answers without geocoding: app.py lines 74-77 for an
\* empty message, lines 83-88 for a command
Reply(p, parse) ==
  /\ pc[p] \in {"idle", "done", "raised"}
  /\ calls < MaxCalls
  /\ calls' = calls + 1
  /\ parsed' = [parsed EXCEPT ![p] = parse]
  /\ pc' = [pc EXCEPT ![p] = "idle"]
  /\ raw' = [raw EXCEPT ![p] = << >>]
  /\ clean' = [clean EXCEPT ![p] = << >>]
  /\ trace' = [trace EXCEPT ![p] = << >>]
  /\ result' = [result EXCEPT ![p] = NoResult]
  /\ exc' = [exc EXCEPT ![p] = "none"]
  /\ prev' = [prev EXCEPT ![p] = NoPrev]
  /\ UNCHANGED << file, api_key, netUp, coords, cache, atCall >>
  /\ UNCHANGED << avars, cvars >>

\* app.py line 79 and parse_intent: a command is answered, anything else
\* is normalized and passed to get_coordinates
Parse(p, parse) ==
  IF parse.type = "command"
  THEN Reply(p, parse)
  ELSE /\ Enter(p, parse.location)
       /\ parsed' = [parsed EXCEPT ![p] = parse]

\* sms_webhook with the form field Body
sms_webhook(p, Body) ==
  IF Strip(Body) = << >>
  THEN Reply(p, [NoParse EXCEPT !.type = "empty", !.text = Body])
  ELSE Parse(p, parse_intent(Strip(Body)))

\* faulty variant: a cache hit does not return
LookupCacheFallsThrough(p) ==
  /\ pc[p] = "lookup"
  /\ LET r == lookup_cache(file, clean[p])
     IN  IF r.raised
         THEN /\ Raise(p, "cache_read")
              /\ trace' = [trace EXCEPT ![p] = Append(@, Tried("cache", "raised", FALSE))]
         ELSE /\ pc' = [pc EXCEPT ![p] = "nominatim"]
              /\ trace' = [trace EXCEPT ![p] =
                   Append(@, Tried("cache", IF r.found THEN "hit" ELSE "miss", FALSE))]
              /\ UNCHANGED << result, exc, coords, cache >>
  /\ UNCHANGED << file, api_key, netUp, calls, raw, clean, atCall, prev >>
  /\ UNCHANGED << parsed, avars, cvars >>

\* lines 180-187: cached = lookup_cache(clean); if cached: return
LookupCache(p) ==
  /\ pc[p] = "lookup"
  /\ LET r == lookup_cache(file, clean[p])
     IN  IF r.raised
         THEN /\ Raise(p, "cache_read")
              /\ trace' = [trace EXCEPT ![p] = Append(@, Tried("cache", "raised", FALSE))]
         ELSE IF r.found
         THEN /\ Return(p, CacheResult(r.val))
              /\ trace' = [trace EXCEPT ![p] = Append(@, Tried("cache", "hit", FALSE))]
         ELSE /\ pc' = [pc EXCEPT ![p] = "nominatim"]
              /\ trace' = [trace EXCEPT ![p] = Append(@, Tried("cache", "miss", FALSE))]
              /\ UNCHANGED << result, exc, coords, cache >>
  /\ UNCHANGED << file, api_key, netUp, calls, raw, clean, atCall, prev >>
  /\ UNCHANGED << parsed, avars, cvars >>

\* what a provider's HTTP exchange can come to now
Reachable == IF netUp THEN Outcomes ELSE DownOutcomes

\* lines 190-192: coords = nominatim_geocode(clean); if coords: save
Nominatim(p) ==
  /\ pc[p] = "nominatim"
  /\ \E o \in Reachable :
       LET r == nominatim_geocode(o)
       IN  /\ trace' = [trace EXCEPT ![p] = Append(@, Tried("nominatim", Res(r), TRUE))]
           /\ IF r.raised
              THEN Raise(p, "provider")
              ELSE IF r.hit
              THEN /\ coords' = [coords EXCEPT ![p] =
                        [lat |-> r.lat, lon |-> r.lon, source |-> "nominatim"]]
                   /\ pc' = [pc EXCEPT ![p] = "save_load"]
                   /\ UNCHANGED << result, exc, cache >>
              ELSE /\ pc' = [pc EXCEPT ![p] = "opencage"]
                   /\ UNCHANGED << result, exc, coords, cache >>
  /\ UNCHANGED << file, api_key, netUp, calls, raw, clean, atCall, prev >>
  /\ UNCHANGED << parsed, avars, cvars >>

\* lines 196-201: time.sleep(0.2); coords = opencage_geocode(clean)
OpenCage(p) ==
  /\ pc[p] = "opencage"
  /\ \E o \in Reachable :
       LET r == opencage_geocode(api_key, o)
       IN  /\ trace' = [trace EXCEPT ![p] =
                  Append(@, Tried("opencage", Res(r), opencage_sends(api_key)))]
           /\ IF r.raised
              THEN Raise(p, "provider")
              ELSE IF r.hit
              THEN /\ coords' = [coords EXCEPT ![p] =
                        [lat |-> r.lat, lon |-> r.lon, source |-> "opencage"]]
                   /\ pc' = [pc EXCEPT ![p] = "save_load"]
                   /\ UNCHANGED << result, exc, cache >>
              ELSE /\ pc' = [pc EXCEPT ![p] = "fallback"]
                   /\ UNCHANGED << result, exc, coords, cache >>
  /\ UNCHANGED << file, api_key, netUp, calls, raw, clean, atCall, prev >>
  /\ UNCHANGED << parsed, avars, cvars >>

\* save_to_cache, lines 61-62: cache = _load_cache(); cache[key] = {...}
SaveLoad(p) ==
  /\ pc[p] = "save_load"
  /\ LET ld == _load_cache(file)
     IN  IF ld.raised
         THEN Raise(p, "cache_read")
         ELSE /\ cache' = [cache EXCEPT ![p] =
                   CachePut(ld.cache, clean[p], coords[p].lat, coords[p].lon)]
              /\ pc' = [pc EXCEPT ![p] = "save_open"]
              /\ UNCHANGED << result, exc, coords >>
  /\ UNCHANGED << file, api_key, netUp, calls, raw, clean, trace, atCall, prev >>
  /\ UNCHANGED << parsed, avars, cvars >>

\* _save_cache, line 46: open(CACHE_PATH, "w") truncates the file, or
\* raises OSError (read-only directory, no permission) and leaves it alone
SaveOpen(p) ==
  /\ pc[p] = "save_open"
  /\ \E ok \in BOOLEAN :
       IF ok
       THEN /\ file' = CorruptFile
            /\ pc' = [pc EXCEPT ![p] = "save_dump"]
            /\ UNCHANGED << result, exc, coords, cache >>
       ELSE /\ Raise(p, "cache_write")
            /\ UNCHANGED file
  /\ UNCHANGED << api_key, netUp, calls, raw, clean, trace, atCall, prev >>
  /\ UNCHANGED << parsed, avars, cvars >>

\* _save_cache, line 47 and the close: the text of the local cache is
\* written from offset 0, or the write raises OSError (disk full) and the
\* file stays truncated.  When another thread has written the file since
\* this one opened it, the text lands on top of that one's: the file is this
\* thread's text if that is the longer one, and unparsable (this text
\* followed by the tail of the other) if it is the shorter.  Then lines
\* 193 and 202 return.
SaveDump(p) ==
  /\ pc[p] = "save_dump"
  /\ \E ok \in BOOLEAN :
       IF ok
       THEN /\ file' = IF file.kind = "json" /\ SerLen(cache[p]) < SerLen(file.data)
                       THEN CorruptFile
                       ELSE JsonFile(cache[p])
            /\ Return(p, ProviderResult(coords[p], coords[p].source))
       ELSE /\ Raise(p, "cache_write")
            /\ UNCHANGED file
  /\ UNCHANGED << api_key, netUp, calls, raw, clean, trace, atCall, prev >>
  /\ UNCHANGED << parsed, avars, cvars >>

\* lines 205-212: closest = find_closest_match(clean); return
Fallback(p) ==
  /\ pc[p] = "fallback"
  /\ LET c == find_closest_match(file, clean[p])
     IN  IF c.raised
         THEN /\ Raise(p, "cache_read")
              /\ trace' = [trace EXCEPT ![p] = Append(@, Tried("fallback", "raised", FALSE))]
         ELSE /\ Return(p, FallbackResult(c))
              /\ trace' = [trace EXCEPT ![p] = Append(@, Tried("fallback", "hit", FALSE))]
  /\ UNCHANGED << file, api_key, netUp, calls, raw, clean, atCall, prev >>
  /\ UNCHANGED << parsed, avars, cvars >>

\* the network: the providers become unreachable, or reachable again
NetDown ==
  /\ netUp
  /\ netUp' = FALSE
  /\ UNCHANGED << file, api_key, calls, pc, raw, clean, coords, cache, trace,
                  result, exc, atCall, prev >>
  /\ UNCHANGED << parsed, avars, cvars >>

NetBack ==
  /\ ~netUp
  /\ netUp' = TRUE
  /\ UNCHANGED << file, api_key, calls, pc, raw, clean, coords, cache, trace,
                  result, exc, atCall, prev >>
  /\ UNCHANGED << parsed, avars, cvars >>

(***************************************************************************)
(* assess (src/pipeline.py), one action per fetch                          *)
(***************************************************************************)
\* assess(lat, lon, location_name) is called
Assess(c) ==
  /\ apc \in {"idle", "done"}
  /\ apc' = "pagasa"
  /\ point' = c
  /\ pagasa' = Unset
  /\ openmeteo' = Unset
  /\ suscept' = Unset
  /\ assessment' = Unset
  /\ upstream' = NoExchanges
  /\ fetched' = NoFetches
  /\ printed' = Text("none")
  /\ UNCHANGED << session, line, branch, cpc, menucall >>
  /\ UNCHANGED << gvars, parsed >>

\* faulty variant: a fetch that comes back unavailable is tried once more
FetchPagasaRetried ==
  /\ apc = "pagasa"
  /\ \E o \in PagasaUpstream :
       /\ pagasa' = fetch_pagasa_rainfall(o)
       /\ upstream' = [upstream EXCEPT !.pagasa = o]
       /\ apc' = IF ~pagasa'.available /\ fetched.pagasa = 0 THEN "pagasa" ELSE "openmeteo"
  /\ fetched' = [fetched EXCEPT !.pagasa = @ + 1]
  /\ UNCHANGED << point, openmeteo, suscept, assessment, gvars, parsed, cvars >>

\* line 70: pagasa = fetch_pagasa_rainfall(lat, lon)
FetchPagasa ==
  /\ apc = "pagasa"
  /\ \E o \in PagasaUpstream :
       /\ pagasa' = fetch_pagasa_rainfall(o)
       /\ upstream' = [upstream EXCEPT !.pagasa = o]
  /\ fetched' = [fetched EXCEPT !.pagasa = @ + 1]
  /\ apc' = "openmeteo"
  /\ UNCHANGED << point, openmeteo, suscept, assessment, gvars, parsed, cvars >>

\* line 80: openmeteo = fetch_rainfall(lat, lon)
FetchRainfall ==
  /\ apc = "openmeteo"
  /\ \E o \in OpenMeteoUpstream :
       /\ openmeteo' = fetch_rainfall(o)
       /\ upstream' = [upstream EXCEPT !.openmeteo = o]
  /\ fetched' = [fetched EXCEPT !.openmeteo = @ + 1]
  /\ apc' = "suscept"
  /\ UNCHANGED << point, pagasa, suscept, assessment, gvars, parsed, cvars >>

\* line 90: suscept = get_susceptibility(lat, lon)
GetSusceptibility ==
  /\ apc = "suscept"
  /\ \E o \in MgbUpstream :
       /\ suscept' = get_susceptibility(o)
       /\ upstream' = [upstream EXCEPT !.mgb = o]
  /\ fetched' = [fetched EXCEPT !.mgb = @ + 1]
  /\ apc' = "risk"
  /\ UNCHANGED << point, pagasa, openmeteo, assessment, gvars, parsed, cvars >>

\* faulty variant: x if flag and x else None, which drops a value of 0.0
OrNoneTruthy(flag, x) == IF flag /\ x # 0 THEN Some(x) ELSE None

\* x if flag else None
OrNone(flag, x) == IF flag THEN Some(x) ELSE None

\* lines 97-107: the call of assess_risk on what the fetchers returned
RiskOf(pg, om, su) ==
  assess_risk(su.level, su.label, su.source,
              OrNone(pg.available, pg.rainfall_mm),
              pg.available,
              OrNone(om.forecast_available, om.rain_6h_mm),
              OrNone(om.forecast_available, om.rain_3h_mm),
              OrNone(om.forecast_available, om.peak_hourly_mm),
              om.forecast_available)

\* lines 97-120: assessment = assess_risk(...); sms_text = format_sms(...);
\* assess returns both
AssessRisk ==
  /\ apc = "risk"
  /\ assessment' = RiskOf(pagasa, openmeteo, suscept)
  /\ printed' = format_sms(assessment', point.name)
  /\ apc' = "done"
  /\ UNCHANGED << point, pagasa, openmeteo, suscept, upstream, fetched, gvars, parsed >>
  /\ UNCHANGED << session, line, branch, cpc, menucall >>

NextRisk ==
  \/ \E c \in AssessPoints : Assess(c)
  \/ FetchPagasa
  \/ FetchRainfall
  \/ GetSusceptibility
  \/ AssessRisk

SpecRisk == Init /\ [][NextRisk]_vars

(***************************************************************************)
(* handle_menu called on stored values (src/pipeline.py), as an SMS front  *)
(* end and tests/test_pipeline.py call it                                  *)
(***************************************************************************)
\* the commands sent
MenuInputs ==
  { << "1" >>, << "2" >>, << " ", "3", "\n" >>, << "4" >>, << "5" >>,
    << "f", "l", "o", "o", "d" >>, << "P", "r", "e", "p" >>,
    << "t", "r", "a", "v", "e", "l" >>, << "f", "a", "r", "m" >>,
    << "W", "H", "Y" >>, << "l", "o", "c" >>,
    << "s", "t", "o", "p" >>, << " ", "S", "T", "O", "P", " " >>,
    << "9" >> }

\* assessments a caller can hold: one of each tier, and one made without
\* any forecast
StoredAssessments ==
  { assess_risk(2, "Moderate", "mgb", Some(0), TRUE, None, None, None, FALSE),
    assess_risk(1, "Low", "mgb", None, FALSE, Some(7500), Some(2500), Some(2500), TRUE),
    assess_risk(3, "High", "mgb", Some(80001), TRUE, Some(30000), Some(0), Some(30000), TRUE),
    assess_risk(4, "Very High", "mgb", Some(150000), TRUE, None, None, None, FALSE),
    assess_risk(3, "High", "mgb", None, FALSE, None, None, None, FALSE) }

StoredNames == { << "q" >>, << "A", "b" >> }

\* handle_menu(command, assessment, location_name) is called
HandleMenu(command, a, n) ==
  /\ menucall' = [command |-> command, assessment |-> a, location_name |-> n]
  /\ printed' = handle_menu(command, a, n)
  /\ UNCHANGED << session, line, branch, cpc >>
  /\ UNCHANGED << gvars, parsed, avars >>

NextMenu ==
  \E command \in MenuInputs,
     a \in {Just(x) : x \in StoredAssessments} \cup {Nothing},
     n \in {Just(x) : x \in StoredNames} \cup {Nothing} :
    HandleMenu(command, a, n)

\* handle_menu and the loop below read neither the cache file nor the key:
\* one installation, without either
InitFront == Init /\ file = MissingFile /\ api_key = FALSE

SpecMenu == InitFront /\ [][NextMenu]_vars

(***************************************************************************)
(* The conversation loop of the command-line client (src/cli.py): one      *)
(* action per pass of the loop, a location pass in the steps of its assess *)
(***************************************************************************)
\* the lines typed
CliLines ==
  { << >>, << " " >>, << "q" >>, << "x", " ", " ", "y" >>, << "1", "2", "3" >>,
    << "1" >>, << " ", "2", " " >>, << "3" >>, << "4" >>, << "5" >>,
    << "F", "l", "o", "o", "d" >>, << "W", "H", "Y" >>, << "l", "o", "c" >>,
    << "S", "t", "o", "p" >>, << "q", "u", "i", "t" >>, << "E", "X", "I", "T" >> }

Quits == { << "q", "u", "i", "t" >>, << "e", "x", "i", "t" >> }

\* the names a resolved location can carry: one that is a line typed, one
\* that is not
ResolvedNames == { << "q" >>, << "A", "b" >> }

\* resolve_location(text), which cli.py imports and parser/intent_parser.py
\* does not define: lines 50-56 read lat, lon and name of what it returns.
\* The resolver always gives coordinates, a provider's or the fallback's;
\* nothing says how the name follows from the text, so it is any name
resolve_location(text) ==
  { [lat |-> c.lat, lon |-> c.lon, name |-> n] :
      c \in ProviderCoords \cup {[lat |-> ManilaLat, lon |-> ManilaLon]},
      n \in ResolvedNames }

\* what the three exchanges of the assess of one pass come to
CliPagasa == { Up("timeout"), [kind |-> "pixel", mm |-> 120001] }
CliOpenMeteo ==
  { Up("http_error"),
    [kind |-> "hourly", hourly |-> << 80, 80, 79, 0, 0, 0 >>, nulls |-> {}] }
CliMgb == { Up("no_features"), [kind |-> "code", code |-> "VHF"] }

\* lines 23-27: input() raises EOFError or KeyboardInterrupt
CliEof ==
  /\ cpc = "input"
  /\ cpc' = "ended"
  /\ branch' = "eof"
  /\ UNCHANGED << session, line, printed, menucall >>
  /\ UNCHANGED << gvars, parsed, avars >>

\* lines 29-31: an empty line is answered with the prompt
CliPrompt(typed) ==
  /\ cpc = "input"
  /\ Strip(typed) = << >>
  /\ line' = Strip(typed)
  /\ branch' = "prompt"
  /\ UNCHANGED << session, printed, cpc, menucall >>
  /\ UNCHANGED << gvars, parsed, avars >>

\* lines 33-35: quit or exit ends the loop
CliQuit(typed) ==
  /\ cpc = "input"
  /\ Strip(typed) # << >>
  /\ Lower(Strip(typed)) \in Quits
  /\ line' = Strip(typed)
  /\ branch' = "quit"
  /\ cpc' = "ended"
  /\ UNCHANGED << session, printed, menucall >>
  /\ UNCHANGED << gvars, parsed, avars >>

\* faulty variant: STOP also forgets the session
CliMenuForgets(typed) ==
  /\ cpc = "input"
  /\ Strip(typed) # << >>
  /\ Lower(Strip(typed)) \notin Quits
  /\ is_menu_command(Strip(typed))
  /\ line' = Strip(typed)
  /\ branch' = "menu"
  /\ printed' = handle_menu(Strip(typed), session.assessment, session.name)
  /\ session' = IF Lower(Strip(typed)) = << "s", "t", "o", "p" >>
                THEN EmptySession ELSE session
  /\ UNCHANGED << cpc, menucall >>
  /\ UNCHANGED << gvars, parsed, avars >>

\* lines 38-45: a menu command is answered from the session
CliMenu(typed) ==
  /\ cpc = "input"
  /\ Strip(typed) # << >>
  /\ Lower(Strip(typed)) \notin Quits
  /\ is_menu_command(Strip(typed))
  /\ line' = Strip(typed)
  /\ branch' = "menu"
  /\ printed' = handle_menu(Strip(typed), session.assessment, session.name)
  /\ UNCHANGED << session, cpc, menucall >>
  /\ UNCHANGED << gvars, parsed, avars >>

\* lines 48-51: anything else is resolved, and assess(lat, lon, name) is
\* called with the location (pipeline.py lines 57-120: the three fetchers,
\* assess_risk and format_sms follow as steps of their own)
CliLocation(typed) ==
  /\ cpc = "input"
  /\ Strip(typed) # << >>
  /\ Lower(Strip(typed)) \notin Quits
  /\ ~is_menu_command(Strip(typed))
  /\ line' = Strip(typed)
  /\ branch' = "location"
  /\ cpc' = "assess"
  /\ \E location \in resolve_location(Strip(typed)) : point' = location
  /\ apc' = "pagasa"
  /\ pagasa' = Unset
  /\ openmeteo' = Unset
  /\ suscept' = Unset
  /\ assessment' = Unset
  /\ upstream' = NoExchanges
  /\ fetched' = NoFetches
  /\ printed' = Text("none")
  /\ UNCHANGED << session, menucall >>
  /\ UNCHANGED << gvars, parsed >>

\* the exchanges of the assess of a pass
CliFetch ==
  /\ cpc = "assess"
  /\ \/ FetchPagasa /\ upstream'.pagasa \in CliPagasa
     \/ FetchRainfall /\ upstream'.openmeteo \in CliOpenMeteo
     \/ GetSusceptibility /\ upstream'.mgb \in CliMgb
     \/ AssessRisk

\* lines 52-58: assess has returned; the session is replaced and the text
\* is printed
CliStore ==
  /\ cpc = "assess"
  /\ apc = "done"
  /\ session' = [assessment |-> Just(assessment), name |-> Just(point.name),
                 lat |-> Just(point.lat), lon |-> Just(point.lon)]
  /\ cpc' = "input"
  /\ UNCHANGED << line, branch, printed, menucall >>
  /\ UNCHANGED << gvars, parsed, avars >>

\* Ctrl-C while a fetcher waits for its answer: requests.get raises
\* KeyboardInterrupt, which the fetchers' except Exception does not catch
\* and which lines 23-27 catch around input() only; main() is left with
\* the request made, the session not assigned and nothing printed
CliInterrupt ==
  /\ cpc = "assess"
  /\ apc \in {"pagasa", "openmeteo", "suscept"}
  /\ fetched' = [fetched EXCEPT ![IF apc = "suscept" THEN "mgb" ELSE apc] = @ + 1]
  /\ cpc' = "ended"
  /\ branch' = "interrupt"
  /\ UNCHANGED << session, line, printed, menucall >>
  /\ UNCHANGED << point, pagasa, openmeteo, suscept, assessment, upstream, apc >>
  /\ UNCHANGED << gvars, parsed >>

\* main()
NextCli ==
  \/ CliEof
  \/ \E typed \in CliLines :
       \/ CliPrompt(typed)
       \/ CliQuit(typed)
       \/ CliMenu(typed)
       \/ CliLocation(typed)
  \/ CliFetch
  \/ CliStore
  \/ CliInterrupt

SpecCli == InitFront /\ [][NextCli]_vars

Step(p) ==
  \/ \E location \in RawInputs : Call(p, location)
  \/ LookupCache(p)
  \/ Nominatim(p)
  \/ OpenCage(p)
  \/ SaveLoad(p)
  \/ SaveOpen(p)
  \/ SaveDump(p)
  \/ Fallback(p)

\* one thread: calls follow one another (cli.py)
Next ==
  \/ \E p \in SeqProcs : Step(p)
  \/ NetDown
  \/ NetBack

Spec == Init /\ [][Next]_vars

\* the webhook, one message after the other (app.py)
SmsStep(p) ==
  \/ \E Body \in SmsBodies : sms_webhook(p, Body)
  \/ LookupCache(p)
  \/ Nominatim(p)
  \/ OpenCage(p)
  \/ SaveLoad(p)
  \/ SaveOpen(p)
  \/ SaveDump(p)
  \/ Fallback(p)

NextSms ==
  \/ \E p \in SeqProcs : SmsStep(p)
  \/ NetDown
  \/ NetBack

SpecSms == Init /\ [][NextSms]_vars

\* concurrent request threads (app.py)
NextConc ==
  \/ \E p \in Procs : Step(p)
  \/ NetDown
  \/ NetBack

SpecConc == Init /\ [][NextConc]_vars

\* one client whose requests are resolves (get_coordinates) and, once it
\* stops resolving, assessments (pipeline.assess); the exchanges of the
\* fetchers are the ones of the command-line runs
InitRequest == Init /\ file = JsonFile(<< "a", "b" >> :> Baguio) /\ api_key = TRUE

NextRequest ==
  \/ apc = "idle" /\ Next
  \/ \E c \in AssessPoints : pc[1] \in {"done", "raised"} /\ Assess(c)
  \/ FetchPagasa /\ upstream'.pagasa \in CliPagasa
  \/ FetchRainfall /\ upstream'.openmeteo \in CliOpenMeteo
  \/ GetSusceptibility /\ upstream'.mgb \in CliMgb
  \/ AssessRisk

SpecRequest == InitRequest /\ [][NextRequest]_vars

(***************************************************************************)
(* Properties                                                              *)
(***************************************************************************)
ProviderSources == {"nominatim", "opencage"}

\* the dict a load of file f gives when it does not raise
DictOf(f) == IF f.kind = "json" THEN f.data ELSE EmptyDict

\* C1: get_coordinates never raises and every value it returns has lat and
\* lon, whatever the cache file holds and whatever the providers do.
C1_AlwaysReturnsCoordinates ==
  \A p \in Procs :
    /\ pc[p] # "raised"
    /\ pc[p] = "done" => {"lat", "lon"} \subseteq DOMAIN result[p]

\* C2: when two threads have each returned coordinates obtained from a
\* provider, for different keys, the cache file holds both keys with the
\* coordinates returned.
C2_BothWritesKept ==
  \A p, q \in Procs :
    ( /\ p # q
      /\ pc[p] = "done" /\ result[p].source \in ProviderSources
      /\ pc[q] = "done" /\ result[q].source \in ProviderSources
      /\ Normalize(raw[p]) # Normalize(raw[q]) )
    => /\ file.kind = "json"
       /\ \A r \in {p, q} :
            /\ Normalize(raw[r]) \in DOMAIN file.data
            /\ file.data[Normalize(raw[r])] =
                 [lat |-> result[r].lat, lon |-> result[r].lon]

\* C3: no call ends with the exception of a failed read or write of the
\* cache file: a failed read counts as a miss, a failed write is ignored.
C3_CacheFailureAbsorbed ==
  \A p \in Procs :
    pc[p] = "raised" => exc[p] \notin {"cache_read", "cache_write"}

\* C4: a call whose normalized key is in the cache returns the stored
\* coordinates with source cache and approximate false, and tries no
\* provider.
C4_CacheHit ==
  \A p \in Procs :
    ( /\ pc[p] \notin {"idle", "lookup"}
      /\ atCall[p].kind = "json"
      /\ Normalize(raw[p]) \in DOMAIN atCall[p].data )
    => /\ pc[p] = "done"
       /\ result[p] =
            [lat |-> atCall[p].data[Normalize(raw[p])].lat,
             lon |-> atCall[p].data[Normalize(raw[p])].lon,
             source |-> "cache", approximate |-> FALSE]
       /\ \A i \in 1..Len(trace[p]) : trace[p][i].tier = "cache"

C4_Witness ==
  \E p \in Procs :
    /\ pc[p] = "done"
    /\ result[p].source = "cache"
    /\ netUp
    /\ Normalize(raw[p]) \in DOMAIN atCall[p].data
    /\ raw[p] # Normalize(raw[p])

\* C5: the tiers are tried in the order cache, nominatim, opencage,
\* fallback; a tier is tried only after every tier before it has missed;
\* nothing is tried after a hit; the source returned is the tier that hit.
TierOrder == << "cache", "nominatim", "opencage", "fallback" >>

C5_StrictTierOrder ==
  \A p \in Procs :
    LET t == trace[p]
    IN  /\ Len(t) <= Len(TierOrder)
        /\ \A i \in 1..Len(t) :
             /\ t[i].tier = TierOrder[i]
             /\ i < Len(t) => t[i].res = "miss"
        /\ pc[p] \in {"nominatim", "opencage", "fallback"} =>
             /\ t # << >>
             /\ t[Len(t)].res = "miss"
             /\ pc[p] = TierOrder[Len(t) + 1]
        /\ pc[p] = "done" =>
             /\ t # << >>
             /\ t[Len(t)].res = "hit"
             /\ result[p].source = t[Len(t)].tier

C5_Witness ==
  \E p \in Procs :
    /\ pc[p] = "done"
    /\ result[p].source = "opencage"
    /\ Len(trace[p]) = 3
    /\ Normalize(raw[p]) \notin DOMAIN DictOf(atCall[p])

\* C6: when a call has returned with source nominatim or opencage, the
\* cache file maps the normalized key of the call to the coordinates
\* returned.
C6_ProviderHitPersisted ==
  \A p \in SeqProcs :
    (pc[p] = "done" /\ result[p].source \in ProviderSources)
    => /\ file.kind = "json"
       /\ Normalize(raw[p]) \in DOMAIN file.data
       /\ file.data[Normalize(raw[p])] =
            [lat |-> result[p].lat, lon |-> result[p].lon]

C6_Witness ==
  \E p \in SeqProcs :
    /\ pc[p] = "done"
    /\ result[p].source = "nominatim"
    /\ atCall[p].kind = "json"
    /\ DOMAIN atCall[p].data # {}
    /\ DOMAIN file.data = DOMAIN atCall[p].data \cup {Normalize(raw[p])}

\* no provider answered the call of thread p
NoProviderHit(p) ==
  \A i \in 1..Len(trace[p]) :
    trace[p][i].tier \in ProviderSources => trace[p][i].res # "hit"

\* C7 as stated: a call with the same text as the call before it returns
\* the same latitude and longitude, whichever tier answered the first call
\* and whatever the providers do at the second.
C7_SameCoordinatesTwice ==
  \A p \in SeqProcs :
    (pc[p] = "done" /\ prev[p].valid /\ prev[p].raw = raw[p])
    => result[p].lat = prev[p].lat /\ result[p].lon = prev[p].lon

\* C7 amended: a call with the same text as the call before it returns the
\* same latitude and longitude when the first call was answered by the
\* cache or a provider, and, when the first call was answered by the
\* fallback, when no provider answers the second call.
C7_SameCoordinatesTwiceAmended ==
  \A p \in SeqProcs :
    ( /\ pc[p] = "done" /\ prev[p].valid /\ prev[p].raw = raw[p]
      /\ (prev[p].source # "fallback" \/ NoProviderHit(p)) )
    => result[p].lat = prev[p].lat /\ result[p].lon = prev[p].lon

C7_Witness ==
  \E p \in SeqProcs :
    /\ pc[p] = "done" /\ prev[p].valid /\ prev[p].raw = raw[p]
    /\ prev[p].source = "nominatim"
    /\ result[p].source = "cache"
    /\ ~netUp

\* C8: in every value returned, approximate is true exactly when source is
\* fallback, and matched_to is present exactly when approximate is true.
C8_ApproximateIffFallback ==
  \A p \in Procs :
    pc[p] = "done" =>
      /\ result[p].approximate <=> result[p].source = "fallback"
      /\ "matched_to" \in DOMAIN result[p] <=> result[p].approximate

C8_Witness ==
  \E p \in Procs :
    /\ pc[p] = "done"
    /\ result[p].source = "fallback"
    /\ result[p].approximate
    /\ "matched_to" \in DOMAIN result[p]
    /\ prev[p].valid /\ ~prev[p].source = "fallback"

\* C9: without OPENCAGE_API_KEY no request goes to opencage and opencage
\* counts as a miss: no call returns source opencage, and a call that
\* missed the cache and nominatim goes on to the fallback matcher and
\* returns its result.
C9_NoKeySkipsOpencage ==
  ~api_key =>
    \A p \in Procs :
      LET t == trace[p]
      IN  /\ \A i \in 1..Len(t) :
               t[i].tier = "opencage" => ~t[i].sent /\ t[i].res = "miss"
          /\ pc[p] = "done" => result[p].source # "opencage"
          /\ (Len(t) >= 2 /\ t[2].res = "miss") =>
               /\ pc[p] \in {"opencage", "fallback", "done"}
               /\ pc[p] = "done" => result[p].source = "fallback"

C9_Witness ==
  \E p \in Procs :
    /\ ~api_key /\ netUp
    /\ pc[p] = "done"
    /\ result[p].source = "fallback"
    /\ Len(trace[p]) = 4
    /\ trace[p][3] = Tried("opencage", "miss", FALSE)

\* C10: a value returned by the fallback tier is the default point, matched
\* to manila, when no cache key has a similarity of at least 0.5 to the
\* normalized input (an empty cache included); otherwise it is matched to a
\* cache key whose similarity is at least 0.5 and not below that of any
\* other key, and has the coordinates stored for that key.
C10_FallbackMatch ==
  \A p \in SeqProcs :
    (pc[p] = "done" /\ result[p].source = "fallback") =>
      LET d == DictOf(file)
          word == Normalize(raw[p])
          near == {x \in DOMAIN d : 2 * Ratio(x, word).num >= Ratio(x, word).den}
          m == result[p].matched_to
      IN  /\ result[p].approximate
          /\ near = {} =>
               /\ result[p].lat = ManilaLat /\ result[p].lon = ManilaLon
               /\ m = << "m", "a", "n", "i", "l", "a" >>
          /\ near # {} =>
               /\ m \in near
               /\ \A y \in near :
                    Ratio(m, word).num * Ratio(y, word).den
                      >= Ratio(y, word).num * Ratio(m, word).den
               /\ result[p].lat = d[m].lat /\ result[p].lon = d[m].lon

C10_Witness ==
  \E p \in SeqProcs :
    /\ pc[p] = "done" /\ result[p].source = "fallback"
    /\ result[p].matched_to = << "a", "c" >>
    /\ raw[p] = << "a", "d" >>
    /\ prev[p].valid /\ prev[p].source = "fallback" /\ prev[p].lat = ManilaLat
    /\ DOMAIN DictOf(file) # {}

\* C11: when the cache file is absent or holds an empty dict, the fallback
\* matcher does not raise and the fallback tier returns the default point,
\* matched to manila, whatever the input.
C11_EmptyCacheDefault ==
  \A p \in SeqProcs :
    ( /\ Len(trace[p]) = 4
      /\ file \in {MissingFile, JsonFile(EmptyDict)} )
    => /\ pc[p] = "done"
       /\ result[p] =
            [lat |-> ManilaLat, lon |-> ManilaLon, source |-> "fallback",
             approximate |-> TRUE,
             matched_to |-> << "m", "a", "n", "i", "l", "a" >>]

C11_Witness ==
  \E p \in SeqProcs :
    /\ pc[p] = "done" /\ result[p].source = "fallback"
    /\ file = MissingFile
    /\ prev[p].valid /\ prev[p].source = "fallback" /\ prev[p].raw # raw[p]

\* C12: once a call has stored its key from a provider's answer, the next
\* call with a text that differs from it only in letter case, in leading or
\* trailing whitespace or in the length of the whitespace runs inside it
\* is answered from the cache with the same coordinates.
C12_CacheKeyCollapsed ==
  \A p \in SeqProcs :
    ( /\ pc[p] \notin {"idle", "lookup"}
      /\ prev[p].valid /\ prev[p].source \in ProviderSources
      /\ JoinSpace(Split(Lower(prev[p].raw))) = JoinSpace(Split(Lower(raw[p]))) )
    => /\ pc[p] = "done"
       /\ result[p].source = "cache"
       /\ result[p].lat = prev[p].lat /\ result[p].lon = prev[p].lon

\* the words of a message in lower case, the barangay prefix in one spelling
BarangaySpellings ==
  { << "b", "a", "r", "a", "n", "g", "a", "y" >>, << "b", "g", "y" >>,
    << "b", "g", "y", "." >>, << "b", "r", "g", "y" >> }

OneSpelling(words) ==
  IF words # << >> /\ words[1] \in BarangaySpellings
  THEN << << "b", "r", "g", "y" >> >> \o Tail(words)
  ELSE words

\* C13: once a message has been resolved through a provider, the next
\* message that differs from it only in letter case, in surrounding or
\* repeated whitespace or in the spelling of the barangay prefix
\* (barangay, bgy, bgy., brgy) is resolved from the cache with the same
\* coordinates.
C13_VariantsOneKey ==
  \A p \in SeqProcs :
    ( /\ pc[p] \notin {"idle", "lookup"}
      /\ parsed[p].type = "location"
      /\ prev[p].valid /\ prev[p].source \in ProviderSources
      /\ OneSpelling(Split(Lower(prev[p].text)))
           = OneSpelling(Split(Lower(parsed[p].text))) )
    => /\ pc[p] = "done"
       /\ result[p].source = "cache"
       /\ result[p].lat = prev[p].lat /\ result[p].lon = prev[p].lon

\* the trigger the PAGASA classes give mm: the number of the bounds 40, 80
\* and 120 mm that mm exceeds; and the one the 6-hour classes give: the
\* number of the bounds 7.5, 15 and 30 mm that mm reaches
PagasaTrigger(mm) == Cardinality({t \in {40000, 80000, 120000} : mm > t})
OpenMeteoTrigger(mm) == Cardinality({t \in {7500, 15000, 30000} : mm >= t})
RainLabels == << "Light", "Moderate", "Heavy", "Intense" >>

\* C14: an assessment made from the PAGASA value has the trigger 0 up to 40
\* mm, 1 above 40 up to 80, 2 above 80 up to 120 and 3 above 120, with the
\* label of that class; 0, 40, 40.001, 80, 80.001, 120 and 120.001 mm give
\* 0, 0, 1, 1, 2, 2 and 3; and the trigger never decreases as mm grows.
C14_PagasaBoundaries ==
  /\ (apc = "done" /\ assessment.rain_source = "pagasa") =>
        /\ assessment.rain_trigger = PagasaTrigger(pagasa.rainfall_mm)
        /\ assessment.rain_label = RainLabels[assessment.rain_trigger + 1]
        /\ \A i \in 1..7 :
             pagasa.rainfall_mm = << 0, 40000, 40001, 80000, 80001, 120000, 120001 >>[i]
               => assessment.rain_trigger = << 0, 0, 1, 1, 2, 2, 3 >>[i]
  /\ \A m1, m2 \in PagasaMm :
       m1 <= m2 => classify_rain_pagasa(m1).trigger <= classify_rain_pagasa(m2).trigger

C14_Witness ==
  /\ apc = "done"
  /\ assessment.rain_source = "pagasa"
  /\ pagasa.rainfall_mm = 40001
  /\ assessment.rain_trigger = 1
  /\ openmeteo.forecast_available

\* C15: an assessment made from the Open-Meteo 6-hour sum has the trigger 0
\* below 7.5 mm, 1 from 7.5 to below 15, 2 from 15 to below 30 and 3 from
\* 30 on, with the label of that class; the trigger never decreases as the
\* sum grows.
C15_OpenMeteoBoundaries ==
  /\ (apc = "done" /\ assessment.rain_source = "open-meteo") =>
        /\ assessment.rain_trigger = OpenMeteoTrigger(openmeteo.rain_6h_mm)
        /\ assessment.rain_label = RainLabels[assessment.rain_trigger + 1]
  /\ \A h1, h2 \in HourlyLists :
       Mm(SumOf(FirstHours(h1, 6))) <= Mm(SumOf(FirstHours(h2, 6)))
         => classify_rain_openmeteo(Mm(SumOf(FirstHours(h1, 6)))).trigger
              <= classify_rain_openmeteo(Mm(SumOf(FirstHours(h2, 6)))).trigger

C15_Witness ==
  /\ apc = "done"
  /\ assessment.rain_source = "open-meteo"
  /\ openmeteo.rain_6h_mm = 7500
  /\ assessment.rain_trigger = 1

\* C16: the trigger of an assessment comes from the PAGASA value whenever
\* PAGASA is available, whatever Open-Meteo gave; from the Open-Meteo 6-hour
\* sum when only Open-Meteo is available; and is 0, with forecast_available
\* false, when neither is.
C16_SourceSelection ==
  apc = "done" =>
    IF pagasa.available
    THEN /\ assessment.rain_source = "pagasa"
         /\ assessment.rain_trigger = PagasaTrigger(pagasa.rainfall_mm)
         /\ assessment.forecast_available
    ELSE IF openmeteo.forecast_available
    THEN /\ assessment.rain_source = "open-meteo"
         /\ assessment.rain_trigger = OpenMeteoTrigger(openmeteo.rain_6h_mm)
         /\ assessment.forecast_available
    ELSE /\ assessment.rain_source = "none"
         /\ assessment.rain_trigger = 0
         /\ ~assessment.forecast_available

C16_Witness ==
  /\ apc = "done"
  /\ pagasa.available /\ pagasa.rainfall_mm = 12500
  /\ openmeteo.forecast_available /\ openmeteo.rain_6h_mm = 30000
  /\ assessment.rain_trigger = 0

\* C17: every assessment assess returns has score = susceptibility *
\* rain_trigger, with the susceptibility, that of the fetcher, in 1..4, the
\* trigger in 0..3 and the score in 0..12.
C17_ScoreIsProduct ==
  apc = "done" =>
    /\ assessment.score = assessment.susceptibility * assessment.rain_trigger
    /\ assessment.susceptibility = suscept.level
    /\ assessment.susceptibility \in 1..4
    /\ assessment.rain_trigger \in 0..3
    /\ assessment.score \in 0..12

C17_Witness ==
  /\ apc = "done"
  /\ assessment.score = 12
  /\ assessment.susceptibility = 4
  /\ assessment.rain_source = "open-meteo"

\* C18: when a forecast is available the tier is SAFE for score 0, WATCH
\* for 1 to 3, WARNING for 4 to 6 and CRITICAL from 7 on, whichever source
\* and mm gave the score.
C18_TierOfScore ==
  (apc = "done" /\ assessment.forecast_available) =>
    /\ assessment.score = 0 => assessment.tier = "SAFE"
    /\ assessment.score \in 1..3 => assessment.tier = "WATCH"
    /\ assessment.score \in 4..6 => assessment.tier = "WARNING"
    /\ assessment.score >= 7 => assessment.tier = "CRITICAL"

C18_Witness ==
  /\ apc = "done"
  /\ assessment.forecast_available
  /\ assessment.score = 6
  /\ assessment.tier = "WARNING"
  /\ assessment.rain_source = "pagasa"

\* C19: when no forecast is available the score is 0 and the tier is WATCH
\* exactly for susceptibility 3 and 4 and SAFE exactly for 1 and 2; when a
\* forecast is available a score of 0 is SAFE at every susceptibility.
C19_NoForecastOverride ==
  apc = "done" =>
    /\ ~assessment.forecast_available
         <=> (~pagasa.available /\ ~openmeteo.forecast_available)
    /\ ~assessment.forecast_available =>
         /\ assessment.score = 0
         /\ assessment.tier = "WATCH" <=> assessment.susceptibility >= 3
         /\ assessment.tier = "SAFE" <=> assessment.susceptibility \in {1, 2}
    /\ (assessment.forecast_available /\ assessment.score = 0) =>
         assessment.tier = "SAFE"

C19_Witness ==
  /\ apc = "done"
  /\ ~assessment.forecast_available
  /\ assessment.susceptibility = 3
  /\ assessment.tier = "WATCH"
  /\ assessment.score = 0

\* C20: each fetcher returns its typed result; when the exchange fails, or
\* the body lacks what the fetcher reads or holds a value of the wrong
\* type, the rainfall fetchers return available false with 0.0 mm, an
\* empty PAGASA result included; and get_susceptibility returns level 2,
\* Moderate, source default when the exchange fails, the body is malformed
\* or no polygon matches.
C20_FetchersFailClosed ==
  /\ apc \in {"openmeteo", "suscept", "risk", "done"} =>
       /\ DOMAIN pagasa =
            {"rainfall_mm", "pagasa_class", "pagasa_class_label", "available"}
       /\ upstream.pagasa.kind # "pixel" =>
            ~pagasa.available /\ pagasa.rainfall_mm = 0
  /\ apc \in {"suscept", "risk", "done"} =>
       /\ DOMAIN openmeteo =
            {"rain_6h_mm", "rain_3h_mm", "peak_hourly_mm", "hourly_values",
             "forecast_available"}
       /\ (upstream.openmeteo.kind # "hourly" \/ upstream.openmeteo.nulls # {}) =>
            ~openmeteo.forecast_available /\ openmeteo.rain_6h_mm = 0
  /\ apc \in {"risk", "done"} =>
       /\ DOMAIN suscept = {"level", "label", "source"}
       /\ upstream.mgb.kind # "code" =>
            suscept = [level |-> 2, label |-> "Moderate", source |-> "default"]

\* C21: a STOP command gets the unsubscribe text whether or not an
\* assessment and a location name are stored; any other command gets the
\* no-location text whenever the assessment or the name is missing.
C21_MenuWithoutSession ==
  menucall # NoMenuCall =>
    /\ Lower(Strip(menucall.command)) = << "s", "t", "o", "p" >> =>
         /\ printed.kind = "stop"
         /\ printed.lines =
              << "You've been unsubscribed. Text any city name to start again." >>
    /\ ( /\ Lower(Strip(menucall.command)) # << "s", "t", "o", "p" >>
         /\ (menucall.assessment = Nothing \/ menucall.location_name = Nothing) ) =>
         /\ printed.kind = "no_session"
         /\ printed.lines[1] = "No location on file."

C21_Witness ==
  /\ menucall.command = << " ", "S", "T", "O", "P", " " >>
  /\ menucall.assessment = Nothing
  /\ menucall.location_name # Nothing
  /\ printed.kind = "stop"

\* the twelve menu commands
TwelveCommands ==
  { << "1" >>, << "2" >>, << "3" >>, << "4" >>, << "5" >>,
    << "f", "l", "o", "o", "d" >>, << "p", "r", "e", "p" >>,
    << "t", "r", "a", "v", "e", "l" >>, << "f", "a", "r", "m" >>,
    << "w", "h", "y" >>, << "l", "o", "c" >>, << "s", "t", "o", "p" >> }

\* C22: a text is a menu command exactly when, trimmed and lower-cased, it
\* is one of the twelve commands; the loop answers exactly those from the
\* menu, and sends every other text that is not empty (and not quit or
\* exit) to the resolver as a location.  The empty text, 123 and a place
\* name are not menu commands.
C22_MenuCommandTexts ==
  /\ \A t \in CliLines \cup MenuInputs \cup SmsBodies \cup RawInputs :
       is_menu_command(t) <=> Lower(Strip(t)) \in TwelveCommands
  /\ ~is_menu_command(<< >>)
  /\ ~is_menu_command(<< "1", "2", "3" >>)
  /\ ~is_menu_command(<< "b", "r", "g", "y", " ", "x" >>)
  /\ is_menu_command(<< " ", "2", " " >>)
  /\ is_menu_command(<< "S", "T", "O", "P" >>)
  /\ branch \in {"prompt", "quit", "menu", "location"} =>
       /\ branch = "menu" <=> Lower(line) \in TwelveCommands
       /\ branch = "location" <=>
            (line # << >> /\ Lower(line) \notin Quits /\ Lower(line) \notin TwelveCommands)

C22_Witness ==
  /\ branch = "menu"
  /\ line = << "W", "H", "Y" >>
  /\ printed.kind = "no_session"

\* C23: a call that has ended has changed the cache store at most by
\* adding the entry of its own normalized key, and only when a provider
\* answered it: every entry that was stored when the call began is still
\* stored with the same coordinates, and a call answered by the cache or by
\* the fallback matcher leaves the store as it was.
C23_OnlyOwnEntryAdded ==
  \A p \in SeqProcs :
    (pc[p] \in {"done", "raised"} /\ trace[p] # << >>) =>
      /\ \A k \in DOMAIN DictOf(atCall[p]) :
           /\ k \in DOMAIN DictOf(file)
           /\ DictOf(file)[k] = DictOf(atCall[p])[k]
      /\ DOMAIN DictOf(file) \ DOMAIN DictOf(atCall[p]) \subseteq {Normalize(raw[p])}
      /\ DOMAIN DictOf(file) # DOMAIN DictOf(atCall[p]) =>
           \E i \in 1..Len(trace[p]) :
             trace[p][i].tier \in ProviderSources /\ trace[p][i].res = "hit"
      /\ (pc[p] = "done" /\ result[p].source \in {"cache", "fallback"}) =>
           file = atCall[p]

\* how many times the call of thread p has tried tier t
TimesTried(p, t) == Cardinality({ i \in DOMAIN trace[p] : trace[p][i].tier = t })

\* C24: nothing is retried.  A resolve tries each geocoding provider at most
\* once, and an assess calls each of its three fetchers exactly once: never
\* more than once while it runs, and once each when it has returned.
C24_NothingRetried ==
  /\ \A p \in SeqProcs : \A t \in ProviderSources : TimesTried(p, t) <= 1
  /\ \A f \in DOMAIN fetched : fetched[f] <= 1
  /\ apc = "done" => fetched = [pagasa |-> 1, openmeteo |-> 1, mgb |-> 1]

\* a resolve that both providers missed and an assess that every fetcher
\* failed have both returned
C24_Witness ==
  /\ pc[1] = "done"
  /\ result[1].source = "fallback"
  /\ \E i, j \in DOMAIN trace[1] :
       /\ trace[1][i] = Tried("nominatim", "miss", TRUE)
       /\ trace[1][j] = Tried("opencage", "miss", TRUE)
  /\ apc = "done"
  /\ ~pagasa.available
  /\ ~openmeteo.forecast_available
  /\ suscept.source = "default"

\* C25: every result of get_susceptibility has a level in 1..4, a label that
\* is the label of that level (Low, Moderate, High, Very High), and source
\* "default" whenever the level was not taken from a recognised zone code of
\* the provider, an unrecognised zone code included.
C25_SusceptibilityWellFormed ==
  apc \in {"risk", "done"} =>
    /\ suscept.level \in 1..4
    /\ suscept.label = LEVEL_LABELS[suscept.level]
    /\ ~(upstream.mgb.kind = "code" /\ upstream.mgb.code \in DOMAIN FLOOD_SUSC_MAP) =>
         suscept.source = "default"

\* C26: a thread that is about to read the cache file while another thread
\* is inside its write of it (the file opened, the text not yet written)
\* finds the store whole: the file parses, and every entry the writer had
\* loaded before its write is in it.
C26_ReaderSeesWholeStore ==
  \A p, q \in Procs :
    (p # q /\ pc[q] = "save_dump" /\ pc[p] \in {"lookup", "save_load", "fallback"}) =>
      /\ file.kind # "corrupt"
      /\ \A k \in DOMAIN cache[q] \ {clean[q]} : k \in DOMAIN DictOf(file)

\* C27: the command table of the menu and the one of the parser agree: a
\* message is_menu_command accepts is a command for parse_intent and is not
\* passed to the geocoder as a location, and a message parse_intent takes
\* for a command is one is_menu_command accepts.
C27_CommandTablesAgree ==
  \A p \in SeqProcs :
    parsed[p].type \in {"command", "location"} =>
      (is_menu_command(parsed[p].text) <=> parsed[p].type = "command")

\* C28: in every assessment assess returns, forecast_available is true
\* exactly when the PAGASA result or the Open-Meteo result is available;
\* rain_source is "pagasa" exactly when PAGASA is available, "open-meteo"
\* exactly when only Open-Meteo is, and "none" exactly when
\* forecast_available is false; and rain_mm is the value the chosen source
\* returned, unchanged.
C28_ForecastFlags ==
  apc = "done" =>
    /\ assessment.forecast_available <=>
         (pagasa.available \/ openmeteo.forecast_available)
    /\ assessment.rain_source \in {"pagasa", "open-meteo", "none"}
    /\ assessment.rain_source = "pagasa" <=> pagasa.available
    /\ assessment.rain_source = "open-meteo" <=>
         (~pagasa.available /\ openmeteo.forecast_available)
    /\ assessment.rain_source = "none" <=> ~assessment.forecast_available
    /\ assessment.rain_source = "pagasa" =>
         assessment.rain_mm = pagasa.rainfall_mm
    /\ assessment.rain_source = "open-meteo" =>
         assessment.rain_mm = openmeteo.rain_6h_mm

\* an assessment made from Open-Meteo alone, and with rain
C28_Witness ==
  /\ apc = "done"
  /\ ~pagasa.available
  /\ openmeteo.forecast_available
  /\ assessment.rain_source = "open-meteo"
  /\ assessment.rain_mm = openmeteo.rain_6h_mm
  /\ assessment.rain_mm > 0
  /\ assessment.forecast_available

\* the tiers in their order: SAFE < WATCH < WARNING < CRITICAL
TierRank(tier) ==
  CASE tier = "SAFE" -> 0 [] tier = "WATCH" -> 1
    [] tier = "WARNING" -> 2 [] tier = "CRITICAL" -> 3

\* rainfall values to raise to, on and around every class boundary
RaisedMm ==
  PagasaMm \cup {7375, 7500, 14875, 15000, 15001, 29875, 30000, 30001, 100000}

\* the assessment of the same fetcher results with the level lv and with mm
\* as the value of the source that was selected
Raised(pg, om, su, lv, mm) ==
  RiskOf([pg EXCEPT !.rainfall_mm = IF pg.available THEN mm ELSE @],
         [om EXCEPT !.rain_6h_mm =
            IF ~pg.available /\ om.forecast_available THEN mm ELSE @],
         [su EXCEPT !.level = lv])

\* C29: the verdict is monotone.  With the availability flags as they are, a
\* higher susceptibility level or a higher rainfall value of the selected
\* source never gives a lower tier, in the order SAFE < WATCH < WARNING <
\* CRITICAL.
C29_VerdictMonotone ==
  apc = "done" =>
    \A lv \in suscept.level..4 :
      \A mm \in { m \in RaisedMm : m >= assessment.rain_mm } :
        TierRank(Raised(pagasa, openmeteo, suscept, lv, mm).tier) >=
          TierRank(assessment.tier)

\* a SAFE assessment of a level 2 place from a PAGASA value on the first
\* boundary: more rain makes it WARNING, a higher level leaves it SAFE
C29_Witness ==
  /\ apc = "done"
  /\ pagasa.available
  /\ pagasa.rainfall_mm = 40000
  /\ suscept.level = 2
  /\ assessment.tier = "SAFE"
  /\ Raised(pagasa, openmeteo, suscept, 2, 120001).tier = "WARNING"
  /\ Raised(pagasa, openmeteo, suscept, 4, 40000).tier = "SAFE"
  /\ Raised(pagasa, openmeteo, suscept, 4, 40001).tier = "WARNING"

\* C30: in the command-line loop a menu command never changes the session;
\* a menu command other than STOP entered before any location was assessed
\* gets the no-location text; the session changes only when the assess of
\* a location has returned, to the assessment just made and the name the
\* resolver gave that location, so that whenever the loop waits for input
\* the session is empty until a location is assessed and from then on
\* holds the assessment and the resolved name of the location entered
\* last; every menu command is answered from them.
C30_SessionFollowsLocations ==
  /\ [][branch' = "menu" => session' = session]_vars
  /\ [][session' # session =>
          /\ branch = "location"
          /\ apc = "done"
          /\ session' = [assessment |-> Just(assessment), name |-> Just(point.name),
                         lat |-> Just(point.lat), lon |-> Just(point.lon)]]_vars
  /\ [](cpc = "input" => (apc = "idle" <=> session = EmptySession))
  /\ []((cpc = "input" /\ apc = "done") =>
          /\ branch \in {"location", "prompt", "menu"}
          /\ session.assessment = Just(assessment)
          /\ session.name = Just(point.name))
  /\ []((branch = "menu" /\ session = EmptySession /\ Lower(line) # << "s", "t", "o", "p" >>) =>
          printed = format_no_session)
  /\ [](branch = "menu" =>
          printed = handle_menu(line, session.assessment, session.name))

\* WHY entered after a location is explained from the stored assessment
C30_Witness ==
  /\ branch = "menu"
  /\ line = << "W", "H", "Y" >>
  /\ session.name = Just(point.name)
  /\ session.assessment = Just(assessment)
  /\ assessment.tier = "CRITICAL"
  /\ printed = format_why(assessment, point.name)

====
